---------------------------- MODULE Spec2Model ----------------------------
(***************************************************************************)
(* Ariadne API: the ingest -> truncate -> validate -> store -> broadcast   *)
(* pipeline (api/src/routes/ingest.ts), the event store with its ring      *)
(* buffer (api/src/store/eventStore.ts) and the SSE connection manager     *)
(* (api/src/store/sseManager.ts).                                          *)
(*                                                                         *)
(* The server is a single-threaded Node process: the synchronous part of a *)
(* handler (everything after `await c.req.json()` in POST /ingest, a whole *)
(* timer callback, a whole cancel callback) runs without interleaving.     *)
(* The ingest loop is modelled step by step (append, then one step per     *)
(* connection of the broadcast) under the program counter pc, and no other *)
(* handler runs while pc # "idle".                                         *)
(***************************************************************************)
EXTENDS Integers, Sequences, FiniteSets, TLC

(***************************************************************************)
(* Bounds of the model.                                                    *)
(***************************************************************************)
MaxConns == 2       \* GET /events requests served (ids sse_1 .. sse_MaxConns)
MaxIngested == 3    \* events appended to the store over a behaviour
MaxBatch == 2       \* events in one POST /ingest payload
MaxRequests == 2    \* POST /ingest requests in flight together
MaxIngestedLane == 4 \* events appended by them
MaxConnsLane == 1   \* GET /events requests served beside them
MaxSteps == 5       \* clock steps of TimeStep milliseconds
MaxIngestedTimed == 1   \* events appended where the clock runs
MaxIngestedRead == 3    \* events appended where the clients' reads are followed
MaxConnsRead == 1       \* GET /events requests served there
MaxIngestedWait == 1    \* events appended where the handler is followed to its end
MAX_EVENTS == 2     \* config.MAX_EVENTS the store is initialised with
MaxCapacity == 3    \* capacities 1..MaxCapacity where the store is taken alone
MaxAppends == 4     \* appends to a store taken alone, since it was made or cleared
MaxIngestedHttp == 2    \* events appended where every kind of request body is posted
MaxConnsHttp == 1       \* GET /events requests served there
MaxIngestedCut == 1     \* events appended where the truncation is followed
MaxConnsCut == 1        \* GET /events requests served there
MaxBatchWhole == 3      \* events in a batch where batches are set beside single events
MaxIngestedWhole == 3   \* events appended there
MaxIngestedEvents == 1  \* events appended where GET /events builds its filters
MaxConnsEvents == 1     \* GET /events requests served there
MaxReceived == 4        \* events the web client is given by its EventSource
\* SSEManager.MAX_QUEUE_SIZE is 5000 in the source; the model runs the same
\* code with the number scaled down so that a full queue is within reach.
MAX_QUEUE_SIZE == 2

(***************************************************************************)
(* Program constants.                                                      *)
(***************************************************************************)
MAX_NAME_LENGTH == 1024
MAX_DATA_VALUE_LENGTH == 100 * 1024
HEARTBEAT_MS == 15000
SUFFIX_LENGTH == 15       \* '... [truncated]'.length

TimeStep == HEARTBEAT_MS \div 3

Min(a, b) == IF a <= b THEN a ELSE b

(***************************************************************************)
(* Optional values: a missing (undefined) property is <<>>, a present one  *)
(* is <<v>>.                                                               *)
(***************************************************************************)
Absent == <<>>
Some(v) == <<v>>

\* the number that parseInt and Date.getTime give where there is none
NaN == Absent

(***************************************************************************)
(* Strings that truncation can touch are kept by their content identity    *)
(* and their length: `pre` leading characters of the original text `id`,   *)
(* followed by the pieces in `tail`, each the first n characters of the    *)
(* literal '... [truncated]'.                                              *)
(***************************************************************************)
Str(id, len) == [id |-> id, pre |-> len, tail |-> <<>>]

\* a JSON number where a string is expected
Num(id, v) == [id |-> id, number |-> v]

\* typeof v === 'string'
IsString(v) == "pre" \in DOMAIN v

RECURSIVE SumSeq(_)
SumSeq(s) == IF s = <<>> THEN 0 ELSE Head(s) + SumSeq(Tail(s))

StrLen(s) == s.pre + SumSeq(s.tail)

\* the pieces of `segs` covered by its first n characters
RECURSIVE TakeSegs(_, _)
TakeSegs(segs, n) ==
    IF n <= 0 \/ segs = <<>> THEN <<>>
    ELSE <<Min(Head(segs), n)>> \o TakeSegs(Tail(segs), n - Head(segs))

\* str.substring(0, n)
Substring(s, n) ==
    [id |-> s.id, pre |-> Min(s.pre, n), tail |-> TakeSegs(s.tail, n - s.pre)]

\* a truncation that marks a string over the cap and cuts nothing
TruncateStringMarkOnly(str, maxLength) ==
    IF StrLen(str) <= maxLength THEN str
    ELSE [str EXCEPT !.tail = str.tail \o <<SUFFIX_LENGTH>>]

\* a truncation that takes a string of exactly the cap for too long
TruncateStringAtCap(str, maxLength) ==
    IF StrLen(str) < maxLength THEN str
    ELSE LET cut == Substring(str, maxLength)
         IN  [cut EXCEPT !.tail = cut.tail \o <<SUFFIX_LENGTH>>]

\* truncate.ts truncateString
TruncateString(str, maxLength) ==
    IF StrLen(str) <= maxLength THEN str
    ELSE LET cut == Substring(str, maxLength)
         IN  [cut EXCEPT !.tail = cut.tail \o <<SUFFIX_LENGTH>>]

\* the truth value JavaScript gives a string or a number
Truthy(v) == IF IsString(v) THEN StrLen(v) > 0 ELSE v.number # 0

\* truncateString throws a TypeError: a number has no length, `undefined <=
\* maxLength` is false, and a number has no substring method
TruncateStringThrows(str) == ~IsString(str)

(***************************************************************************)
(* The JSON values of `data`: strings (Str), numbers (Num), null, arrays    *)
(* and objects.  An object is kept by its properties, key -> value.         *)
(***************************************************************************)
JNull == [null |-> TRUE]
JArray(items) == [array |-> items]
JObject(fields) == [object |-> fields]

\* value && typeof value === 'object' && !Array.isArray(value)
IsObject(v) == "object" \in DOMAIN v

\* the keys Object.entries gives the elements of an array
IndexKeys == <<"0", "1", "2">>

\* Object.entries(data): the properties of an object; of an array, its
\* elements under their indices
Entries(data) ==
    IF IsObject(data) THEN data.object
    ELSE [key \in {IndexKeys[i] : i \in 1..Len(data.array)} |->
            data.array[CHOOSE i \in 1..Len(data.array) : IndexKeys[i] = key]]

\* truncate.ts truncateDataField: the properties of the object it returns
RECURSIVE truncateDataField(_)
truncateDataField(data) ==
    LET entries == Entries(data)
    IN  [key \in DOMAIN entries |->
            IF IsString(entries[key])
            THEN TruncateString(entries[key], MAX_DATA_VALUE_LENGTH)
            ELSE IF IsObject(entries[key])
            THEN JObject(truncateDataField(entries[key]))
            ELSE entries[key]]

\* truncate.ts truncateEvent
truncateEvent(event) ==
    LET truncated ==
            IF event.name # Absent /\ Truthy(event.name[1])
            THEN [event EXCEPT
                    !.name = Some(TruncateString(event.name[1], MAX_NAME_LENGTH))]
            ELSE event
    IN  IF truncated.type = Some("span") /\ truncated.data # Absent
        THEN [truncated EXCEPT !.data = Some(JObject(truncateDataField(truncated.data[1])))]
        ELSE truncated

(***************************************************************************)
(* Events.  Timestamps are kept as the instants `new Date(...)` gives.     *)
(***************************************************************************)
Ev(type, trace_id, span_id, kind, started_at, ended_at, nameLen) ==
    [type |-> Some(type), trace_id |-> Some(trace_id), span_id |-> span_id,
     kind |-> kind, started_at |-> started_at, ended_at |-> ended_at,
     name |-> Some(Str(0, nameLen)), data |-> Absent]

\* what a producer may post: valid traces and spans, and bodies the schema rejects
Templates ==
    << Ev("trace", "t4", Absent, Absent, Absent, Absent, MAX_NAME_LENGTH + 1),
       Ev("span", "t4", Some("s1"), Some("agent"), Some(2), Some(2), 4),
       Ev("span", "t5", Some("s2"), Absent, Some(1), Some(2), MAX_NAME_LENGTH),
       Ev("span", "", Some("s"), Absent, Absent, Absent, 4),
       Ev("trace", "t4", Absent, Absent, Some(2), Some(1), 4) >>

\* the producer names its events by a running number
Labelled(tpl, label) ==
    [tpl EXCEPT !.name = Some([tpl.name[1] EXCEPT !.id = label])]

\* a schema without the refinement on the two timestamps
ValidEventAnyOrder(e) ==
    /\ e.type \in {Some("trace"), Some("span")}
    /\ e.trace_id # Absent /\ e.trace_id[1] # ""
    /\ e.type = Some("span") => (e.span_id # Absent /\ e.span_id[1] # "")

\* schemas.ts TraceEventSchema / SpanEventSchema
ValidEvent(e) ==
    /\ e.type \in {Some("trace"), Some("span")}
    /\ e.name # Absent => IsString(e.name[1])
    /\ e.trace_id # Absent /\ e.trace_id[1] # ""
    /\ e.type = Some("span") => (e.span_id # Absent /\ e.span_id[1] # "")
    /\ (e.type = Some("span") /\ e.data # Absent) => IsObject(e.data[1])
    /\ (e.started_at # Absent /\ e.ended_at # Absent)
          => e.started_at[1] <= e.ended_at[1]

\* what z.object(...).parse gives for a valid event: the properties of the
\* schema, the others stripped (a trace has no span_id, kind or data)
SchemaParse(e) ==
    IF e.type = Some("trace")
    THEN [e EXCEPT !.span_id = Absent, !.kind = Absent, !.data = Absent]
    ELSE e

\* a validation that looks at the first event of the payload only
ValidPayloadFirstOnly(evs) == Len(evs) > 0 => ValidEvent(evs[1])

\* schemas.ts IngestPayloadSchema on a single event or a {batch: [...]} body
ValidPayload(evs) == \A i \in 1..Len(evs) : ValidEvent(evs[i])


(***************************************************************************)
(* State.                                                                  *)
(***************************************************************************)
VARIABLES
    buffer,             \* RingBuffer.buffer: slot -> event, <<>> for an empty slot
    head,               \* RingBuffer.head
    count,              \* RingBuffer.count
    size,               \* RingBuffer.size
    traceIndex,         \* EventStore.traceIndex: trace_id -> [traceEvent, spans]
    appended,           \* history: every event given to EventStore.append since
                        \* the store was made or cleared, in order
    cleared,            \* history: how many events the store had been given when
                        \* clear was last called
    connections,        \* SSEManager.connections: the ids registered in the Map
    conn,               \* every SSEConnection object created, by id number
    sink,               \* per connection: the frames controller.enqueue accepted
    sinkOk,             \* per connection: whether controller.enqueue still succeeds
    nextId,             \* SSEManager.nextId
    heartbeatInterval,  \* SSEManager.heartbeatInterval is set
    paused,             \* per connection: the client has stopped reading
    delivered,          \* per connection: the frames its client has read so far
    now,                \* Date.now()
    nextTick,           \* when the setInterval callback fires next
    pc,                 \* where the running POST /ingest handler stands
    events,             \* its validated events
    idx,                \* the event of the for loop, 1..Len(events)
    cursor,             \* the connection the broadcast loop visited last
    resp,               \* the response of POST /ingest, while pc = "done"
    contentLength,      \* the Content-Length header of a request past sizeLimit
    reqBody,            \* the kind of body the handler of POST /ingest was given
    bornAt,             \* history: per connection, Len(appended) at its creation
    failed,             \* history: the connections a write of this request lost
    reqInvalid,         \* history: the payload of this request held an invalid event
    before,             \* history: store and manager when the request came in
    posted,             \* history: the events of the body of this request as
                        \* c.req.json() gave them, once they have passed the schema
    query,              \* history: the query of the GET /events request that is
                        \* being answered with an error
    closedLen,          \* history: per connection, Len(sink) when it was removed
    reader,             \* per connection: the reader the handler of GET /events
                        \* holds on its stream: "open", and "released" once
                        \* the handler has left its read loop
    pausedAt,           \* history: per connection, Len(appended) when its client
                        \* stopped reading
    isPaused,           \* web client: streamState.isPaused, every queued update applied
    bufferedEvents,     \* web client: streamState.bufferedEvents, likewise
    appEvents,          \* web client: the `events` state of App, the list it shows
    rendered,           \* web client: the isPaused and bufferedEvents that the
                        \* callbacks of the last render closed over
    received,           \* history: how many events onmessage has been given
    isPrivacyEnabled,   \* web client: privacyState.isPrivacyEnabled
    revealedEvents,     \* web client: privacyState.revealedEvents
    revealClicks,       \* history: the events whose "Reveal Data" button was
                        \* pressed since privacy mode was last switched on
    pending,            \* the POST /ingest requests whose handler has been
                        \* entered and waits in `await c.req.json()`, or has
                        \* gone on from there
    arrived             \* how many of them there have been

storeVars == <<buffer, head, count, size, traceIndex, appended, cleared>>
sseVars == <<connections, conn, sink, sinkOk, nextId, heartbeatInterval, closedLen>>
clientVars == <<paused, delivered, pausedAt, reader>>
timeVars == <<now, nextTick>>
reqVars == <<pc, events, idx, cursor, resp, contentLength, reqBody>>
histVars == <<bornAt, failed, reqInvalid, before, posted, query>>
privacyVars == <<isPrivacyEnabled, revealedEvents, revealClicks>>
webVars == <<isPaused, bufferedEvents, appEvents, rendered, received, privacyVars>>
laneVars == <<pending, arrived>>
vars == <<storeVars, sseVars, clientVars, timeVars, reqVars, histVars, webVars,
          laneVars>>

NoResponse == [status |-> 0, count |-> 0]

(***************************************************************************)
(* Event store (eventStore.ts).                                            *)
(***************************************************************************)
\* the store as one value: what EventStore and its RingBuffer hold
Store == [buffer |-> buffer, head |-> head, count |-> count, size |-> size,
          traceIndex |-> traceIndex]

\* an append that, once the buffer is full, overwrites the newest slot
RingAppendOverNewest(st, event) ==
    IF st.count < st.size
    THEN [st EXCEPT !.buffer = [st.buffer EXCEPT ![st.head] = Some(event)],
                    !.head = (st.head + 1) % st.size,
                    !.count = st.count + 1]
    ELSE [st EXCEPT !.buffer = [st.buffer EXCEPT
                        ![(st.head + st.size - 1) % st.size] = Some(event)]]

\* RingBuffer.append
RingAppend(st, event) ==
    [st EXCEPT !.buffer = [st.buffer EXCEPT ![st.head] = Some(event)],
               !.head = (st.head + 1) % st.size,
               !.count = IF st.count < st.size THEN st.count + 1 ELSE st.count]

\* new EventStore(maxSize) with its new RingBuffer(maxSize)
NewStore(maxSize) ==
    [buffer |-> [i \in 0..(maxSize - 1) |-> Absent], head |-> 0, count |-> 0,
     size |-> maxSize, traceIndex |-> <<>>]

\* an append to the store that keeps the first envelope of a trace
StoreAppendKeepsEnvelope(st, event) ==
    LET st1 == RingAppend(st, event)
        traceId == event.trace_id[1]
        ti == st1.traceIndex
        trace == IF traceId \in DOMAIN ti THEN ti[traceId]
                 ELSE [traceEvent |-> Absent, spans |-> <<>>]
        trace1 == IF event.type = Some("trace")
                  THEN (IF trace.traceEvent = Absent
                        THEN [trace EXCEPT !.traceEvent = Some(event)]
                        ELSE trace)
                  ELSE [trace EXCEPT !.spans = Append(trace.spans, event)]
    IN  [st1 EXCEPT !.traceIndex =
            [t \in DOMAIN ti \cup {traceId} |-> IF t = traceId THEN trace1 ELSE ti[t]]]

\* EventStore.append
StoreAppend(st, event) ==
    LET st1 == RingAppend(st, event)
        traceId == event.trace_id[1]
        ti == st1.traceIndex
        trace == IF traceId \in DOMAIN ti THEN ti[traceId]
                 ELSE [traceEvent |-> Absent, spans |-> <<>>]
        trace1 == IF event.type = Some("trace")
                  THEN [trace EXCEPT !.traceEvent = Some(event)]
                  ELSE [trace EXCEPT !.spans = Append(trace.spans, event)]
    IN  [st1 EXCEPT !.traceIndex =
            [t \in DOMAIN ti \cup {traceId} |-> IF t = traceId THEN trace1 ELSE ti[t]]]

\* RingBuffer.getAll
RECURSIVE Slice(_, _, _)
Slice(buf, from, to) ==
    IF from >= to THEN <<>> ELSE <<buf[from][1]>> \o Slice(buf, from + 1, to)

\* a reading of the buffer from its first slot on, whatever the head
getAllFromStart(st) == Slice(st.buffer, 0, st.count)

getAll(st) ==
    IF st.count < st.size THEN Slice(st.buffer, 0, st.count)
    ELSE Slice(st.buffer, st.head, st.size) \o Slice(st.buffer, 0, st.head)

\* EventStore.getByTrace
getByTrace(st, traceId) ==
    IF traceId \notin DOMAIN st.traceIndex THEN <<>>
    ELSE LET trace == st.traceIndex[traceId]
         IN  (IF trace.traceEvent # Absent THEN <<trace.traceEvent[1]>> ELSE <<>>)
                \o trace.spans

\* EventStore.getTraceIds
getTraceIds(st) == DOMAIN st.traceIndex

\* a clear that empties the buffer and leaves the index
StoreClearBufferOnly(st) ==
    [st EXCEPT !.buffer = [i \in 0..(st.size - 1) |-> Absent],
               !.head = 0, !.count = 0]

\* EventStore.clear with RingBuffer.clear
StoreClear(st) ==
    [st EXCEPT !.buffer = [i \in 0..(st.size - 1) |-> Absent],
               !.head = 0, !.count = 0, !.traceIndex = <<>>]

(***************************************************************************)
(* SSE connection manager (sseManager.ts).                                 *)
(***************************************************************************)
\* JSON.stringify of an object: the properties that are present, by key
JsonStringify(obj) == [k \in {f \in DOMAIN obj : obj[f] # Absent} |-> obj[k][1]]

DataFrame(data) == [kind |-> "data", body |-> JsonStringify(data)]
CommentFrame(comment) == [kind |-> "comment", body |-> [comment |-> comment]]

ConnectedMessage(t) == [type |-> Some("connected"), timestamp |-> Some(t)]
BackpressureComment == "warning stream backpressure; events skipped"
HeartbeatComment == "heartbeat"

\* the manager as one value
Manager == [connections |-> connections, conn |-> conn, sink |-> sink]

\* what a request can change: the store, the registry, the connections, the
\* sinks, the id counter
Observable ==
    [store |-> Store, appended |-> appended, manager |-> Manager, nextId |-> nextId]

\* a removal that takes every subscription with it
RemoveConnectionAll(m, id) ==
    IF id \in m.connections
    THEN [m EXCEPT !.conn = [i \in DOMAIN m.conn |->
                                [m.conn[i] EXCEPT !.connected = FALSE]],
                   !.connections = {}]
    ELSE m

\* a removal that closes the connection and leaves its entry in the Map
RemoveConnectionKeepsEntry(m, id) ==
    IF id \in m.connections
    THEN [m EXCEPT !.conn[id].connected = FALSE]
    ELSE m

\* a removal that deletes the entry from the Map and leaves connected set
RemoveConnectionKeepsFlag(m, id) ==
    IF id \in m.connections
    THEN [m EXCEPT !.connections = m.connections \ {id}]
    ELSE m

\* SSEManager.removeConnection
RemoveConnection(m, id) ==
    IF id \in m.connections
    THEN [m EXCEPT !.conn[id].connected = FALSE,
                   !.connections = m.connections \ {id}]
    ELSE m

\* controller.enqueue(chunk) returns rather than throws; the stream made by
\* createConnection takes chunks from its start callback on
SinkAccepts(id) == id \in DOMAIN sinkOk => sinkOk[id]

\* the try/catch around controller.enqueue shared by sendMessage and sendComment
Write(m, id, frame) ==
    IF ~m.conn[id].connected THEN m
    ELSE IF SinkAccepts(id) THEN [m EXCEPT !.sink[id] = Append(m.sink[id], frame)]
    ELSE RemoveConnection(m, id)

\* a sendMessage that counts the frame it writes as a heartbeat
SendMessageStamps(m, id, data) ==
    LET after == Write(m, id, DataFrame(data)) IN
    IF m.conn[id].connected
    THEN [after EXCEPT !.conn[id].lastHeartbeat = now]
    ELSE after

\* SSEManager.sendMessage
SendMessage(m, id, data) == Write(m, id, DataFrame(data))

\* SSEManager.sendComment
SendComment(m, id, comment) == Write(m, id, CommentFrame(comment))

\* SSEManager.matchesFilter
matchesFilter(event, filter) ==
    /\ ~(/\ filter.traceId # Absent /\ filter.traceId[1] # ""
         /\ event.trace_id[1] # filter.traceId[1])
    /\ ~(/\ filter.kinds # Absent /\ event.type = Some("span")
         /\ \/ event.kind = Absent
            \/ event.kind[1] = ""
            \/ event.kind[1] \notin filter.kinds[1])
    /\ ~(/\ filter.since # Absent /\ event.type = Some("span")
         /\ event.started_at # Absent
         /\ event.started_at[1] < filter.since[1])

\* a broadcast that pushes without the backpressure test and leaves the flush
\* to somebody else
BroadcastBodyUnbounded(m, id, event, at) ==
    LET c == m.conn[id] IN
    IF at = "visit" /\ c.connected
       /\ (c.filter = Absent \/ matchesFilter(event, c.filter[1]))
    THEN [m |-> [m EXCEPT !.conn[id].queue = Append(c.queue, event)], at |-> "next"]
    ELSE [m |-> m, at |-> "next"]

\* a broadcast that puts the event at the front of the queue (unshift) and
\* flushes once two events are waiting
BroadcastBodyLifo(m, id, event, at) ==
    LET c == m.conn[id]
        Flushing(mm) == IF Len(mm.conn[id].queue) > 0 /\ mm.conn[id].connected
                        THEN "flush" ELSE "next"
    IN
    IF at = "visit"
    THEN IF ~c.connected \/ (c.filter # Absent /\ ~matchesFilter(event, c.filter[1]))
         THEN [m |-> m, at |-> "next"]
         ELSE [m |-> [m EXCEPT !.conn[id].queue = <<event>> \o c.queue],
               at |-> IF Len(c.queue) >= 1 THEN "flush" ELSE "next"]
    ELSE IF Len(c.queue) > 0 /\ c.connected
         THEN LET m1 == SendMessage([m EXCEPT !.conn[id].queue = Tail(c.queue)],
                                    id, Head(c.queue))
              IN  [m |-> m1, at |-> Flushing(m1)]
         ELSE [m |-> m, at |-> "next"]

\* a broadcast whose flush loop runs while (queue.length > 1)
BroadcastBodyLag(m, id, event, at) ==
    LET c == m.conn[id]
        Flushing(mm) == IF Len(mm.conn[id].queue) > 1 /\ mm.conn[id].connected
                        THEN "flush" ELSE "next"
    IN
    IF at = "visit"
    THEN IF ~c.connected \/ (c.filter # Absent /\ ~matchesFilter(event, c.filter[1]))
         THEN [m |-> m, at |-> "next"]
         ELSE LET m1 == IF Len(c.queue) >= c.maxQueueSize
                        THEN SendComment([m EXCEPT !.conn[id].queue = Tail(c.queue)],
                                         id, BackpressureComment)
                        ELSE m
                  m2 == [m1 EXCEPT !.conn[id].queue = Append(m1.conn[id].queue, event)]
              IN  [m |-> m2, at |-> Flushing(m2)]
    ELSE IF Len(c.queue) > 1 /\ c.connected
         THEN LET m1 == SendMessage([m EXCEPT !.conn[id].queue = Tail(c.queue)],
                                    id, Head(c.queue))
              IN  [m |-> m1, at |-> Flushing(m1)]
         ELSE [m |-> m, at |-> "next"]

\* a broadcast that pushes the event and leaves the flush to a later call
BroadcastBodyNoFlush(m, id, event, at) ==
    LET c == m.conn[id] IN
    IF at = "visit" /\ c.connected
       /\ (c.filter = Absent \/ matchesFilter(event, c.filter[1]))
    THEN LET m1 == IF Len(c.queue) >= c.maxQueueSize
                   THEN SendComment([m EXCEPT !.conn[id].queue = Tail(c.queue)],
                                    id, BackpressureComment)
                   ELSE m
         IN  [m |-> [m1 EXCEPT !.conn[id].queue = Append(m1.conn[id].queue, event)],
              at |-> "next"]
    ELSE [m |-> m, at |-> "next"]

\* a broadcast without the filter test
BroadcastBodyNoFilter(m, id, event, at) ==
    LET c == m.conn[id]
        Flushing(mm) == IF Len(mm.conn[id].queue) > 0 /\ mm.conn[id].connected
                        THEN "flush" ELSE "next"
    IN
    IF at = "visit"
    THEN IF ~c.connected THEN [m |-> m, at |-> "next"]
         ELSE LET m2 == [m EXCEPT !.conn[id].queue = Append(c.queue, event)]
              IN  [m |-> m2, at |-> Flushing(m2)]
    ELSE IF Len(c.queue) > 0 /\ c.connected
         THEN LET m1 == SendMessage([m EXCEPT !.conn[id].queue = Tail(c.queue)],
                                    id, Head(c.queue))
              IN  [m |-> m1, at |-> Flushing(m1)]
         ELSE [m |-> m, at |-> "next"]

\* a flush that waits for the client to read before it writes
BroadcastBodyAwaitReader(m, id, event, at) ==
    LET c == m.conn[id]
        Flushing(mm) == IF Len(mm.conn[id].queue) > 0 /\ mm.conn[id].connected
                        THEN "flush" ELSE "next"
    IN
    IF at = "visit"
    THEN IF ~c.connected THEN [m |-> m, at |-> "next"]
         ELSE IF c.filter # Absent /\ ~matchesFilter(event, c.filter[1])
         THEN [m |-> m, at |-> "next"]
         ELSE LET m1 == IF Len(c.queue) >= c.maxQueueSize
                        THEN SendComment([m EXCEPT !.conn[id].queue = Tail(c.queue)],
                                         id, BackpressureComment)
                        ELSE m
                  m2 == [m1 EXCEPT !.conn[id].queue = Append(m1.conn[id].queue, event)]
              IN  [m |-> m2, at |-> Flushing(m2)]
    ELSE IF Len(c.queue) > 0 /\ c.connected
         THEN IF paused[id]
              THEN [m |-> m, at |-> "flush"]
              ELSE LET m1 == SendMessage([m EXCEPT !.conn[id].queue = Tail(c.queue)],
                                         id, Head(c.queue))
                   IN  [m |-> m1, at |-> Flushing(m1)]
         ELSE [m |-> m, at |-> "next"]

\* one step of the body of the for loop of SSEManager.broadcast for connection
\* id.  At "visit": the connected test, the filter, the backpressure test and
\* the push.  At "flush": one turn of the while loop of flushConnection.  The
\* result is the manager and where the loop stands next: "flush" when the
\* while condition of flushConnection holds, "next" when the for loop moves on.
BroadcastBody(m, id, event, at) ==
    LET c == m.conn[id]
        Flushing(mm) == IF Len(mm.conn[id].queue) > 0 /\ mm.conn[id].connected
                        THEN "flush" ELSE "next"
    IN
    IF at = "visit"
    THEN IF ~c.connected THEN [m |-> m, at |-> "next"]
         ELSE IF c.filter # Absent /\ ~matchesFilter(event, c.filter[1])
         THEN [m |-> m, at |-> "next"]
         ELSE LET m1 == IF Len(c.queue) >= c.maxQueueSize
                        THEN SendComment([m EXCEPT !.conn[id].queue = Tail(c.queue)],
                                         id, BackpressureComment)
                        ELSE m
                  m2 == [m1 EXCEPT !.conn[id].queue = Append(m1.conn[id].queue, event)]
              IN  [m |-> m2, at |-> Flushing(m2)]
    ELSE IF Len(c.queue) > 0 /\ c.connected
         THEN LET m1 == SendMessage([m EXCEPT !.conn[id].queue = Tail(c.queue)],
                                    id, Head(c.queue))
              IN  [m |-> m1, at |-> Flushing(m1)]
         ELSE [m |-> m, at |-> "next"]

\* the body of the setInterval callback of startHeartbeat for one connection
HeartbeatOne(m, id, t) ==
    IF t - m.conn[id].lastHeartbeat >= HEARTBEAT_MS
    THEN [SendComment(m, id, HeartbeatComment) EXCEPT !.conn[id].lastHeartbeat = t]
    ELSE m

\* a scan that ends at the first connection its write removes
RECURSIVE HeartbeatLoopBroken(_, _, _)
HeartbeatLoopBroken(m, ids, t) ==
    IF ids = {} THEN m
    ELSE LET id == CHOOSE i \in ids : \A j \in ids : i <= j
             after == HeartbeatOne(m, id, t)
         IN  IF id \notin after.connections THEN after
             ELSE HeartbeatLoopBroken(after, ids \ {id}, t)

\* a for loop over connections.values(): the Map is walked in insertion order,
\* which is the order of the ids
RECURSIVE HeartbeatLoop(_, _, _)
HeartbeatLoop(m, ids, t) ==
    IF ids = {} THEN m
    ELSE LET id == CHOOSE i \in ids : \A j \in ids : i <= j
         IN  HeartbeatLoop(HeartbeatOne(m, id, t), ids \ {id}, t)

RECURSIVE RemoveAll(_, _)
RemoveAll(m, ids) ==
    IF ids = {} THEN m
    ELSE LET id == CHOOSE i \in ids : \A j \in ids : i <= j
         IN  RemoveAll(RemoveConnection(m, id), ids \ {id})

\* the filters GET /events builds from its query (events route)
Filters ==
    { Absent,
      Some([traceId |-> Some("t4"), kinds |-> Some({"agent"}), since |-> Some(2)]) }

(***************************************************************************)
(* Initial state: initializeStore(MAX_EVENTS), initializeSseManager().     *)
(***************************************************************************)
\* the state once the store has been made with maxSize and the manager started
Started(maxSize) ==
    /\ buffer = NewStore(maxSize).buffer
    /\ head = 0
    /\ count = 0
    /\ size = maxSize
    /\ traceIndex = <<>>
    /\ appended = <<>>
    /\ cleared = Absent
    /\ connections = {}
    /\ conn = <<>>
    /\ sink = <<>>
    /\ sinkOk = <<>>
    /\ nextId = 1
    /\ heartbeatInterval = TRUE
    /\ paused = <<>>
    /\ delivered = <<>>
    /\ now = 0
    /\ nextTick = HEARTBEAT_MS
    /\ pc = "idle"
    /\ events = <<>>
    /\ idx = 0
    /\ cursor = 0
    /\ resp = NoResponse
    /\ contentLength = Absent
    /\ reqBody = Absent
    /\ bornAt = <<>>
    /\ failed = {}
    /\ reqInvalid = FALSE
    /\ before = Absent
    /\ posted = <<>>
    /\ query = Absent
    /\ closedLen = <<>>
    /\ pausedAt = <<>>
    /\ reader = <<>>
    /\ isPaused = FALSE
    /\ bufferedEvents = <<>>
    /\ appEvents = <<>>
    /\ rendered = [isPaused |-> FALSE, bufferedEvents |-> <<>>]
    /\ received = 0
    /\ isPrivacyEnabled = TRUE
    /\ revealedEvents = {}
    /\ revealClicks = {}
    /\ pending = {}
    /\ arrived = 0

Init == Started(MAX_EVENTS)

\* a store of any small capacity, taken alone
InitStore == \E maxSize \in 1..MaxCapacity : Started(maxSize)

SetManager(m) ==
    /\ connections' = m.connections
    /\ conn' = m.conn
    /\ sink' = m.sink
    /\ closedLen' = [id \in DOMAIN m.conn |->
                       IF id \in DOMAIN closedLen /\ closedLen[id] # Absent
                       THEN closedLen[id]
                       ELSE IF m.conn[id].connected THEN Absent
                       ELSE Some(Len(m.sink[id]))]

(***************************************************************************)
(* GET /events and the life of a subscription.                             *)
(***************************************************************************)
\* a creation that sends the new subscription what the store holds
RECURSIVE SendAll(_, _, _)
SendAll(m, id, evs) ==
    IF evs = <<>> THEN m
    ELSE SendAll(SendMessage(m, id, Head(evs)), id, Tail(evs))

CreateConnectionReplay(filter, limit) ==
    /\ pc = "idle"
    /\ nextId <= limit
    /\ LET id == nextId
           connection == [queue |-> <<>>, maxQueueSize |-> MAX_QUEUE_SIZE,
                          filter |-> filter, lastHeartbeat |-> now,
                          connected |-> TRUE]
           m == [connections |-> connections \cup {id},
                 conn |-> Append(conn, connection),
                 sink |-> Append(sink, <<>>)]
       IN  /\ sinkOk' = Append(sinkOk, TRUE)
           /\ nextId' = nextId + 1
           /\ SetManager(SendAll(SendMessage(m, id, ConnectedMessage(now)), id, getAll(Store)))
    /\ paused' = Append(paused, FALSE)
    /\ delivered' = Append(delivered, 0)
    /\ pausedAt' = Append(pausedAt, Absent)
    /\ reader' = Append(reader, "open")
    /\ bornAt' = Append(bornAt, Len(appended))
    /\ UNCHANGED <<storeVars, heartbeatInterval, timeVars, webVars, laneVars, reqVars, failed,
                   reqInvalid, before, posted, query>>

\* SSEManager.createConnection with the start callback of its stream
CreateConnection(filter, limit) ==
    /\ pc = "idle"
    /\ nextId <= limit
    /\ LET id == nextId
           connection == [queue |-> <<>>, maxQueueSize |-> MAX_QUEUE_SIZE,
                          filter |-> filter, lastHeartbeat |-> now,
                          connected |-> TRUE]
           m == [connections |-> connections \cup {id},
                 conn |-> Append(conn, connection),
                 sink |-> Append(sink, <<>>)]
       IN  /\ sinkOk' = Append(sinkOk, TRUE)
           /\ nextId' = nextId + 1
           /\ SetManager(SendMessage(m, id, ConnectedMessage(now)))
    /\ paused' = Append(paused, FALSE)
    /\ delivered' = Append(delivered, 0)
    /\ pausedAt' = Append(pausedAt, Absent)
    /\ reader' = Append(reader, "open")
    /\ bornAt' = Append(bornAt, Len(appended))
    /\ UNCHANGED <<storeVars, heartbeatInterval, timeVars, webVars, laneVars, reqVars, failed,
                   reqInvalid, before, posted, query>>

\* the cancel callback of the stream (the client went away): it calls
\* removeConnection(id), and the cancelled stream is closed, so that
\* controller.enqueue throws from now on
ClientClose(id) ==
    /\ pc = "idle"
    /\ id \in connections
    /\ SetManager(RemoveConnection(Manager, id))
    /\ sinkOk' = [sinkOk EXCEPT ![id] = FALSE]
    /\ UNCHANGED <<storeVars, nextId, heartbeatInterval, clientVars,
                   timeVars, webVars, laneVars, reqVars, histVars>>

\* the stream of a connection has ended for its reader: it was cancelled or
\* it failed, so that it takes no chunks any more and reader.read() gives
\* done or rejects.  removeConnection does not call controller.close()
StreamEnded(id) == ~sinkOk[id]

\* the handler of GET /events leaves its read loop: `if (done) break` or the
\* catch, then the finally with reader.releaseLock() and removeConnection(id)
StreamDone(id) ==
    /\ pc = "idle"
    /\ reader[id] = "open"
    /\ StreamEnded(id)
    /\ reader' = [reader EXCEPT ![id] = "released"]
    /\ SetManager(RemoveConnection(Manager, id))
    /\ UNCHANGED <<storeVars, sinkOk, nextId, heartbeatInterval, paused, delivered,
                   pausedAt, timeVars, webVars, laneVars, reqVars, histVars>>

\* the stream of a connection stops taking chunks: controller.enqueue throws
SinkFail(id) ==
    /\ pc = "idle"
    /\ id \in connections
    /\ sinkOk[id]
    /\ sinkOk' = [sinkOk EXCEPT ![id] = FALSE]
    /\ UNCHANGED <<storeVars, connections, conn, sink, nextId, heartbeatInterval,
                   closedLen, clientVars, timeVars, webVars, laneVars, reqVars, histVars>>

\* SSEManager.destroy
Destroy ==
    /\ pc = "idle"
    /\ heartbeatInterval
    /\ heartbeatInterval' = FALSE
    /\ SetManager(RemoveAll(Manager, connections))
    /\ UNCHANGED <<storeVars, sinkOk, nextId, clientVars, timeVars, webVars, laneVars, reqVars,
                   histVars>>

\* the client stops reading its response, and reads again
ClientPause(id) ==
    /\ pc = "idle"
    /\ ~paused[id]
    /\ paused' = [paused EXCEPT ![id] = TRUE]
    /\ pausedAt' = [pausedAt EXCEPT ![id] = Some(Len(appended))]
    /\ UNCHANGED <<storeVars, sseVars, delivered, reader, timeVars, webVars, laneVars, reqVars,
                   histVars>>

ClientResume(id) ==
    /\ pc = "idle"
    /\ paused[id]
    /\ paused' = [paused EXCEPT ![id] = FALSE]
    /\ pausedAt' = [pausedAt EXCEPT ![id] = Absent]
    /\ UNCHANGED <<storeVars, sseVars, delivered, reader, timeVars, webVars, laneVars, reqVars,
                   histVars>>

\* one turn of the read loop of the GET /events handler: reader.read() gives
\* the next chunk of the stream and streamCtx.write hands it to the client
StreamRead(id) ==
    /\ pc = "idle"
    /\ ~paused[id]
    /\ delivered[id] < Len(sink[id])
    /\ delivered' = [delivered EXCEPT ![id] = delivered[id] + 1]
    /\ UNCHANGED <<storeVars, sseVars, paused, pausedAt, reader, timeVars, webVars, laneVars,
                   reqVars, histVars>>

(***************************************************************************)
(* GET /events: the filter built from the query.  A query parameter is     *)
(* <<>> when the request has none.  The `kinds` parameter is kept by its   *)
(* characters, a word of letters standing as one; the `since` parameter by *)
(* its text.                                                               *)
(***************************************************************************)
\* text.split(','): the pieces between the commas
RECURSIVE Split(_)
Split(text) ==
    IF \A i \in 1..Len(text) : text[i] # "," THEN <<text>>
    ELSE LET i == CHOOSE j \in 1..Len(text) :
                    text[j] = "," /\ \A k \in 1..(j - 1) : text[k] # ","
         IN  <<SubSeq(text, 1, i - 1)>> \o Split(SubSeq(text, i + 1, Len(text)))

\* piece.trim()
RECURSIVE Trim(_)
Trim(piece) ==
    IF piece = <<>> THEN piece
    ELSE IF Head(piece) = " " THEN Trim(Tail(piece))
    ELSE IF piece[Len(piece)] = " " THEN Trim(SubSeq(piece, 1, Len(piece) - 1))
    ELSE piece

\* the string of a trimmed piece: empty, or its word
Word(piece) == IF piece = <<>> THEN "" ELSE piece[1]

\* new Date(text).getTime(): the instant of an ISO-8601 text, NaN for any other
DateParse(text) ==
    IF text = "1970-01-01T00:00:00.001Z" THEN Some(1)
    ELSE IF text = "1970-01-01T00:00:00.002Z" THEN Some(2)
    ELSE NaN

\* `if (sinceParam)` and isNaN(filter.since.getTime())
InvalidSince(q) == q.since # Absent /\ q.since[1] # "" /\ DateParse(q.since[1]) = NaN

\* the filter object of the route, and what createConnection is given:
\* undefined when the filter has no key
FilterOf(q) ==
    LET filter ==
            [traceId |-> IF q.traceId # Absent /\ q.traceId[1] # ""
                         THEN q.traceId ELSE Absent,
             kinds |-> IF q.kinds # Absent /\ q.kinds[1] # <<>>
                       THEN LET pieces == Split(q.kinds[1])
                            IN  Some({Word(Trim(pieces[i])) : i \in 1..Len(pieces)})
                       ELSE Absent,
             since |-> IF q.since # Absent /\ q.since[1] # ""
                       THEN DateParse(q.since[1]) ELSE Absent]
    IN  IF filter.traceId = Absent /\ filter.kinds = Absent /\ filter.since = Absent
        THEN Absent ELSE Some(filter)

\* the queries a viewer sends
Queries ==
    [traceId : {Absent, Some(""), Some("t4")},
     kinds : {Absent, Some(<<>>), Some(<<"agent">>), Some(<<"agent", ",">>),
              Some(<<" ", "agent", " ", ",", "tool">>)},
     since : {Absent, Some(""), Some("1970-01-01T00:00:00.002Z"), Some("yesterday")}]

\* a route that registers the subscription before it looks at `since`
EventsRejectLate(q) ==
    /\ pc = "idle"
    /\ InvalidSince(q)
    /\ nextId <= MaxConnsEvents
    /\ LET id == nextId
           connection == [queue |-> <<>>, maxQueueSize |-> MAX_QUEUE_SIZE,
                          filter |-> Absent, lastHeartbeat |-> now,
                          connected |-> TRUE]
           m == [connections |-> connections \cup {id},
                 conn |-> Append(conn, connection),
                 sink |-> Append(sink, <<>>)]
       IN  /\ sinkOk' = Append(sinkOk, TRUE)
           /\ nextId' = nextId + 1
           /\ SetManager(SendMessage(m, id, ConnectedMessage(now)))
    /\ paused' = Append(paused, FALSE)
    /\ delivered' = Append(delivered, 0)
    /\ pausedAt' = Append(pausedAt, Absent)
    /\ reader' = Append(reader, "open")
    /\ bornAt' = Append(bornAt, Len(appended))
    /\ resp' = [status |-> 400, count |-> 0]
    /\ pc' = "done"
    /\ query' = Some(q)
    /\ before' = Some(Observable)
    /\ UNCHANGED <<storeVars, heartbeatInterval, timeVars, webVars, laneVars, events, idx, cursor,
                   contentLength, reqBody, failed, reqInvalid, posted>>

\* GET /events with a `since` that is no timestamp:
\* return c.json({error: 'Invalid since parameter'}, 400)
EventsReject(q) ==
    /\ pc = "idle"
    /\ InvalidSince(q)
    /\ resp' = [status |-> 400, count |-> 0]
    /\ pc' = "done"
    /\ query' = Some(q)
    /\ before' = Some(Observable)
    /\ UNCHANGED <<storeVars, sseVars, clientVars, timeVars, webVars, laneVars, events, idx, cursor,
                   contentLength, reqBody, bornAt, failed, reqInvalid, posted>>

\* GET /events: sseManager.createConnection(filter) and the stream of the answer
EventsOpen(q, limit) ==
    /\ ~InvalidSince(q)
    /\ CreateConnection(FilterOf(q), limit)

(***************************************************************************)
(* Time and the heartbeat timer.                                           *)
(***************************************************************************)
Advance ==
    /\ pc = "idle"
    /\ now < MaxSteps * TimeStep
    /\ heartbeatInterval => now < nextTick
    /\ now' = now + TimeStep
    /\ UNCHANGED <<storeVars, sseVars, clientVars, nextTick, webVars, laneVars, reqVars,
                   histVars>>

\* the setInterval callback of startHeartbeat
HeartbeatTick ==
    /\ pc = "idle"
    /\ heartbeatInterval
    /\ now >= nextTick
    /\ nextTick' = nextTick + HEARTBEAT_MS
    /\ SetManager(HeartbeatLoop(Manager, connections, now))
    /\ UNCHANGED <<storeVars, sinkOk, nextId, heartbeatInterval, clientVars, now, webVars, laneVars,
                   reqVars, histVars>>

(***************************************************************************)
(* POST /ingest.                                                           *)
(***************************************************************************)
\* the bodies a producer posts: up to MaxBatch events, named by a running number
Payload(tpls) ==
    [i \in 1..Len(tpls) |-> Labelled(Templates[tpls[i]], Len(appended) + i)]

Truncated(body) == [i \in 1..Len(body) |-> truncateEvent(body[i])]

\* IngestPayloadSchema.parse(truncatedBody) on a valid payload
Parsed(evs) == [i \in 1..Len(evs) |-> SchemaParse(evs[i])]

\* the payload holds an event that the schema rejects
HasInvalidEvent(body) == \E i \in 1..Len(body) : ~ValidEvent(truncateEvent(body[i]))

\* a handler that broadcasts the first event of a request only
AfterConnectionFirstOnly(registered, cur, evs, i) ==
    IF (\E c \in registered : c > cur) /\ i = 1 THEN [pc |-> "broadcast", idx |-> i]
    ELSE IF i < Len(evs) THEN [pc |-> "append", idx |-> i + 1]
    ELSE [pc |-> "respond", idx |-> i]

\* where the handler stands once the broadcast loop has left connection `cur`:
\* at the next connection of the Map, or past the end of the loop at the next
\* event of the request, or at the response
AfterConnection(registered, cur, evs, i) ==
    IF \E c \in registered : c > cur THEN [pc |-> "broadcast", idx |-> i]
    ELSE IF i < Len(evs) THEN [pc |-> "append", idx |-> i + 1]
    ELSE [pc |-> "respond", idx |-> i]

\* a handler that validates event by event: it has stored the first event of
\* the payload when it finds a later one invalid
IngestRejectPartial(body) ==
    /\ pc = "idle"
    /\ ~ValidPayload(Truncated(body))
    /\ Len(appended) < MaxAppends
    /\ IF ValidEvent(truncateEvent(body[1]))
       THEN LET st == StoreAppend(Store, truncateEvent(body[1]))
            IN  /\ buffer' = st.buffer
                /\ head' = st.head
                /\ count' = st.count
                /\ traceIndex' = st.traceIndex
                /\ appended' = Append(appended, truncateEvent(body[1]))
       ELSE UNCHANGED <<buffer, head, count, traceIndex, appended>>
    /\ resp' = [status |-> 400, count |-> 0]
    /\ pc' = "done"
    /\ reqInvalid' = HasInvalidEvent(body)
    /\ before' = Some(Observable)
    /\ posted' = <<>>
    /\ reqBody' = Some("events")
    /\ UNCHANGED <<size, cleared, sseVars, clientVars, timeVars, webVars, laneVars, events, idx, cursor,
                   contentLength, bornAt, failed, query>>

\* truncation, then IngestPayloadSchema.parse throws: the catch answers 400
IngestReject(body) ==
    /\ pc = "idle"
    /\ ~ValidPayload(Truncated(body))
    /\ resp' = [status |-> 400, count |-> 0]
    /\ pc' = "done"
    /\ reqInvalid' = HasInvalidEvent(body)
    /\ before' = Some(Observable)
    /\ posted' = <<>>
    /\ reqBody' = Some("events")
    /\ UNCHANGED <<storeVars, sseVars, clientVars, timeVars, webVars, laneVars, events, idx, cursor,
                   contentLength, bornAt, failed, query>>

\* a handler that takes one event of its payload and waits again before the
\* next one
IngestAcceptOneByOne(body, limit) ==
    LET rest == SelectSeq(body, LAMBDA e : e.name[1].id \notin
                                            {appended[i].name[1].id : i \in 1..Len(appended)})
    IN
    /\ pc = "idle"
    /\ ValidPayload(Truncated(body))
    /\ Len(rest) > 0
    /\ Len(appended) + 1 <= limit
    /\ events' = Parsed(Truncated(<<rest[1]>>))
    /\ idx' = 1
    /\ pc' = "append"
    /\ cursor' = 0
    /\ resp' = NoResponse
    /\ reqInvalid' = HasInvalidEvent(body)
    /\ before' = Some(Observable)
    /\ posted' = body
    /\ reqBody' = Some("events")
    /\ UNCHANGED <<storeVars, sseVars, clientVars, timeVars, webVars, laneVars,
                   contentLength, bornAt, failed, query>>

\* truncation, then IngestPayloadSchema.parse gives the events of the request
IngestAccept(body, limit) ==
    /\ pc = "idle"
    /\ ValidPayload(Truncated(body))
    /\ Len(appended) + Len(body) <= limit
    /\ events' = Parsed(Truncated(body))
    /\ idx' = IF Len(body) = 0 THEN 0 ELSE 1
    /\ pc' = IF Len(body) = 0 THEN "respond" ELSE "append"
    /\ cursor' = 0
    /\ resp' = NoResponse
    /\ reqInvalid' = HasInvalidEvent(body)
    /\ before' = Some(Observable)
    /\ posted' = body
    /\ reqBody' = Some("events")
    /\ UNCHANGED <<storeVars, sseVars, clientVars, timeVars, webVars, laneVars, contentLength, bornAt,
                   failed, query>>
\* a request in flight: its events are named by the number of the request
\* and their place in its payload
LabelBase == MaxBatch + 1

LaneBody(r) ==
    [i \in 1..Len(r.tpls) |-> Labelled(Templates[r.tpls[i]], r.req * LabelBase + i)]

LabelsOf(evs) == {evs[i].name[1].id : i \in 1..Len(evs)}

\* POST /ingest is entered with a valid payload of one event or more, up to
\* `await c.req.json()`
IngestArrive(tpls) ==
    /\ pc = "idle"
    /\ arrived < MaxRequests
    /\ Len(tpls) > 0
    /\ ValidPayload(Truncated(LaneBody([req |-> arrived + 1, tpls |-> tpls])))
    /\ pending' = pending \cup {[req |-> arrived + 1, tpls |-> tpls]}
    /\ arrived' = arrived + 1
    /\ UNCHANGED <<storeVars, sseVars, clientVars, timeVars, reqVars, histVars, webVars>>

\* the handler of request r has gone on from its await: its events are in
\* the store or with the running handler
Resumed(r) ==
    \A i \in 1..Len(r.tpls) :
        r.req * LabelBase + i \in LabelsOf(appended) \cup LabelsOf(events)

\* c.req.json() of request r settles and its handler goes on
IngestResume(r, limit) ==
    /\ ~Resumed(r)
    /\ IngestAccept(LaneBody(r), limit)

\* a for loop that broadcasts the event without store.append
IngestAppendUnstored ==
    /\ pc = "append"
    /\ cursor' = 0
    /\ LET after == AfterConnection(connections, 0, events, idx)
       IN  /\ pc' = after.pc
           /\ idx' = after.idx
    /\ UNCHANGED <<storeVars, sseVars, clientVars, timeVars, webVars, laneVars, events, resp,
                   contentLength, reqBody, histVars>>

\* store.append(event), and the entry into sseManager.broadcast(event)
IngestAppend ==
    /\ pc = "append"
    /\ LET st == StoreAppend(Store, events[idx])
       IN  /\ buffer' = st.buffer
           /\ head' = st.head
           /\ count' = st.count
           /\ traceIndex' = st.traceIndex
    /\ appended' = Append(appended, events[idx])
    /\ cursor' = 0
    /\ LET after == AfterConnection(connections, 0, events, idx)
       IN  /\ pc' = after.pc
           /\ idx' = after.idx
    /\ UNCHANGED <<size, cleared, sseVars, clientVars, timeVars, webVars, laneVars, events, resp,
                   contentLength, reqBody, histVars>>

\* sseManager.broadcast(event): the for loop takes the next connection of the
\* Map, or flushConnection takes its next turn
BroadcastStep ==
    /\ pc \in {"broadcast", "flush"}
    /\ LET id == IF pc = "flush" THEN cursor
                 ELSE CHOOSE c \in connections :
                        c > cursor /\ \A d \in connections : d > cursor => c <= d
           r == BroadcastBody(Manager, id, events[idx],
                              IF pc = "flush" THEN "flush" ELSE "visit")
           after == AfterConnection(r.m.connections, id, events, idx)
       IN  /\ SetManager(r.m)
           /\ cursor' = id
           /\ pc' = IF r.at = "flush" THEN "flush" ELSE after.pc
           /\ idx' = IF r.at = "flush" THEN idx ELSE after.idx
           /\ failed' = failed \cup (connections \ r.m.connections)
    /\ UNCHANGED <<storeVars, sinkOk, nextId, heartbeatInterval, clientVars,
                   timeVars, webVars, laneVars, events, resp, contentLength, reqBody, bornAt,
                   reqInvalid, before, posted, query>>

\* return c.json({success: true, count: events.length})
IngestRespond ==
    /\ pc = "respond"
    /\ resp' = [status |-> 200, count |-> Len(events)]
    /\ pc' = "done"
    /\ UNCHANGED <<storeVars, sseVars, clientVars, timeVars, webVars, laneVars, events, idx, cursor,
                   contentLength, reqBody, histVars>>

\* the handler has returned; the server takes the next request
IngestReturn ==
    /\ pc = "done"
    /\ pc' = "idle"
    /\ resp' = NoResponse
    /\ events' = <<>>
    /\ idx' = 0
    /\ cursor' = 0
    /\ failed' = {}
    /\ reqInvalid' = FALSE
    /\ before' = Absent
    /\ posted' = <<>>
    /\ query' = Absent
    /\ contentLength' = Absent
    /\ reqBody' = Absent
    /\ UNCHANGED <<storeVars, sseVars, clientVars, timeVars, webVars, laneVars, bornAt>>

(***************************************************************************)
(* The sizeLimit middleware in front of POST /ingest.                      *)
(***************************************************************************)
MAX_SIZE == 256 * 1024

IsDigit(ch) == ch \in {"0", "1", "2", "3", "4", "5", "6", "7", "8", "9"}

DigitOf(ch) ==
    CHOOSE d \in 0..9 : <<"0", "1", "2", "3", "4", "5", "6", "7", "8", "9">>[d + 1] = ch

RECURSIVE LeadingDigits(_)
LeadingDigits(text) ==
    IF text = <<>> \/ ~IsDigit(Head(text)) THEN <<>>
    ELSE <<Head(text)>> \o LeadingDigits(Tail(text))

RECURSIVE DecimalValue(_)
DecimalValue(ds) ==
    IF ds = <<>> THEN 0
    ELSE 10 * DecimalValue(SubSeq(ds, 1, Len(ds) - 1)) + DigitOf(ds[Len(ds)])

\* parseInt(text, 10) of a header without sign or leading space: the number
\* its leading digits spell, NaN when it starts with none
ParseInt(text) ==
    LET ds == LeadingDigits(text)
    IN  IF ds = <<>> THEN NaN ELSE Some(DecimalValue(ds))

\* a gate that also turns away a request of exactly MAX_SIZE bytes
SizeLimitReached(header) ==
    /\ header # <<>>
    /\ LET n == ParseInt(header) IN n # NaN /\ n[1] >= MAX_SIZE

\* sizeLimit: `if (contentLength) { size = parseInt(...); if (size > MAX_SIZE)`
SizeLimitExceeded(header) ==
    /\ header # <<>>
    /\ LET n == ParseInt(header) IN n # NaN /\ n[1] > MAX_SIZE

\* the Content-Length headers of the requests
Headers ==
    { <<"9">>, <<"2", "6", "2", "1", "4", "4">>, <<"2", "6", "2", "1", "4", "5">>,
      <<"x">> }

\* sizeLimit answers 413 and the handler is not called
SizeLimitReject(header) ==
    /\ pc = "idle"
    /\ contentLength = Absent
    /\ SizeLimitExceeded(header)
    /\ contentLength' = Some(header)
    /\ resp' = [status |-> 413, count |-> 0]
    /\ pc' = "done"
    /\ before' = Some(Observable)
    /\ UNCHANGED <<storeVars, sseVars, clientVars, timeVars, webVars, laneVars, events, idx, cursor,
                   reqBody, bornAt, failed, reqInvalid,
                   posted, query>>

\* sizeLimit calls next(): the request goes on to the handler of POST /ingest
\* (a request without the header goes there at once)
SizeLimitNext(header) ==
    /\ pc = "idle"
    /\ contentLength = Absent
    /\ ~SizeLimitExceeded(header)
    /\ contentLength' = Some(header)
    /\ UNCHANGED <<storeVars, sseVars, clientVars, timeVars, webVars, laneVars, pc, events, idx, cursor,
                   resp, reqBody, histVars>>

(***************************************************************************)
(* POST /ingest with the bodies that are no event and no batch of events.  *)
(* A request is the shape of its body and the events in it.  The response  *)
(* is known by its status: 400 goes with {error: 'Validation failed',      *)
(* details}, 500 with {error: 'Internal server error', message}.           *)
(***************************************************************************)
\* a span whose name is the JSON number v
NumberNamed(v) ==
    [Ev("span", "t4", Some("s1"), Absent, Absent, Absent, 4)
        EXCEPT !.name = Some(Num(0, v))]

FaultRequests ==
    { [shape |-> "malformed", evs |-> <<>>],     \* no JSON text
      [shape |-> "null", evs |-> <<>>],          \* null
      [shape |-> "number", evs |-> <<>>],        \* 5
      [shape |-> "string", evs |-> <<>>],        \* "abc"
      [shape |-> "batch_number", evs |-> <<>>],  \* {"batch": 5}
      [shape |-> "array", evs |-> <<Templates[2]>>],           \* [event]
      [shape |-> "object", evs |-> <<NumberNamed(7)>>],        \* {.., "name": 7}
      [shape |-> "object", evs |-> <<NumberNamed(0)>>],        \* {.., "name": 0}
      [shape |-> "batch", evs |-> <<Templates[2], NumberNamed(7)>>] }

\* truncateEvent(e) throws
TruncateEventThrows(e) ==
    e.name # Absent /\ Truthy(e.name[1]) /\ TruncateStringThrows(e.name[1])

\* what the try block of the handler throws for a request, <<>> if nothing:
\* c.req.json(), then the truncation (Array.isArray, `'batch' in body`,
\* body.batch.map, truncateEvent), then IngestPayloadSchema.parse
Thrown(req) ==
    IF req.shape = "malformed" THEN Some("SyntaxError")
    ELSE IF req.shape \in {"null", "number", "string", "batch_number"}
    THEN Some("TypeError")
    ELSE IF \E i \in 1..Len(req.evs) : TruncateEventThrows(req.evs[i])
    THEN Some("TypeError")
    ELSE IF req.shape = "array" \/ ~ValidPayload(Truncated(req.evs))
    THEN Some("ZodError")
    ELSE Absent

\* the catch block of the handler: an error with `issues` is answered 400,
\* any other 500
CatchStatus(error) == IF error = "ZodError" THEN 400 ELSE 500

IngestFault(req) ==
    /\ pc = "idle"
    /\ Thrown(req) # Absent
    /\ resp' = [status |-> CatchStatus(Thrown(req)[1]), count |-> 0]
    /\ pc' = "done"
    /\ reqBody' = Some(req.shape)
    /\ reqInvalid' = (req.shape \in {"object", "batch"} /\ Thrown(req) = Some("ZodError"))
    /\ before' = Some(Observable)
    /\ posted' = <<>>
    /\ UNCHANGED <<storeVars, sseVars, clientVars, timeVars, webVars, laneVars, events, idx, cursor,
                   contentLength, bornAt, failed, query>>

(***************************************************************************)
(* POST /ingest without a Content-Length header (chunked transfer          *)
(* encoding): sizeLimit finds no header and calls next() at once, whatever *)
(* the size of the body.                                                   *)
(***************************************************************************)
\* a trace whose name alone is longer than MAX_SIZE
Oversized == Ev("trace", "t5", Absent, Absent, Absent, Absent, MAX_SIZE + 1)

IngestChunked(limit) ==
    /\ contentLength = Absent
    /\ IngestAccept(<<Labelled(Oversized, Len(appended) + 1)>>, limit)

(***************************************************************************)
(* POST /ingest with the events the truncation works on: names at and over *)
(* MAX_NAME_LENGTH, and `data` with strings at and over                    *)
(* MAX_DATA_VALUE_LENGTH, numbers, null, arrays and nested objects.        *)
(***************************************************************************)
OverCap == Str(3, MAX_DATA_VALUE_LENGTH + 1)

DataLeaves ==
    { Str(1, 4), Str(2, MAX_DATA_VALUE_LENGTH), OverCap, Num(0, 7), JNull,
      JArray(<<OverCap, Num(0, 7)>>) }

DataInputs ==
    {Absent}
        \cup {Some(JObject([text |-> v])) : v \in DataLeaves}
        \cup {Some(JObject([outer |-> JObject([text |-> v]), size |-> Num(0, 0)])) :
                v \in DataLeaves}
        \cup {Some(JArray(<<OverCap>>))}

NameInputs ==
    { Absent, Some(Str(0, 0)), Some(Str(0, MAX_NAME_LENGTH)),
      Some(Str(0, MAX_NAME_LENGTH + 1)) }

TruncationInputs ==
    { [Ev(type, "t4", Some("s1"), Absent, Absent, Absent, 0)
            EXCEPT !.name = name, !.data = data] :
        type \in {"trace", "span"}, name \in NameInputs, data \in DataInputs }

(***************************************************************************)
(* The web client: App with useStreamControl, under a React root made by   *)
(* createRoot.  A state update queued by onmessage is rendered by a later  *)
(* task of the scheduler, one queued by a click or a key at the end of     *)
(* that event; until a render the callbacks in use are those of the last   *)
(* one.  Events are known by their number of arrival.                      *)
(***************************************************************************)
\* the render of App and its effects: new callbacks over the state of now
Render ==
    /\ rendered # [isPaused |-> isPaused, bufferedEvents |-> bufferedEvents]
    /\ rendered' = [isPaused |-> isPaused, bufferedEvents |-> bufferedEvents]
    /\ UNCHANGED <<storeVars, sseVars, clientVars, timeVars, reqVars, histVars, laneVars,
                   isPaused, bufferedEvents, appEvents, received, privacyVars>>

\* eventSource.onmessage with a trace or a span: bufferEvent(event) when the
\* isPaused of the effect is true, else setEvents(prev => [event, ...prev])
OnMessage ==
    /\ received < MaxReceived
    /\ received' = received + 1
    /\ IF rendered.isPaused
       THEN /\ bufferedEvents' = Append(bufferedEvents, received + 1)
            /\ UNCHANGED appEvents
       ELSE /\ appEvents' = <<received + 1>> \o appEvents
            /\ UNCHANGED bufferedEvents
    /\ UNCHANGED <<storeVars, sseVars, clientVars, timeVars, reqVars, histVars, laneVars,
                   isPaused, rendered, privacyVars>>

\* useStreamControl flushBufferedEvents: the bufferedEvents of the render it
\* was made in
FlushBufferedEvents == rendered.bufferedEvents

\* handleTogglePause (the button and the space key), and the render that
\* ends the event
HandleTogglePause ==
    /\ LET buffered == FlushBufferedEvents
           kept == IF rendered.isPaused THEN <<>> ELSE bufferedEvents
       IN  /\ bufferedEvents' = kept
           /\ appEvents' = IF rendered.isPaused /\ Len(buffered) > 0
                            THEN buffered \o appEvents ELSE appEvents
           /\ isPaused' = ~isPaused
           /\ rendered' = [isPaused |-> ~isPaused, bufferedEvents |-> kept]
    /\ UNCHANGED <<storeVars, sseVars, clientVars, timeVars, reqVars, histVars, laneVars,
                   received, privacyVars>>

(***************************************************************************)
(* The web client: usePrivacyStore, and the two controls of TraceInspector *)
(* that call it.  An event is known by its number of arrival, which stands *)
(* for its privacy key.                                                    *)
(***************************************************************************)
\* usePrivacyStore shouldHideData
shouldHideData(eventId) == isPrivacyEnabled /\ eventId \notin revealedEvents

\* TraceInspector dataHidden, under which the "Reveal Data" buttons are drawn
dataHidden(spanPrivacyKey) == isPrivacyEnabled /\ shouldHideData(spanPrivacyKey)

\* togglePrivacyMode with the reveals kept when privacy mode goes off
TogglePrivacyModeKeepsReveals ==
    /\ isPrivacyEnabled' = ~isPrivacyEnabled
    /\ revealedEvents' = revealedEvents
    /\ revealClicks' = IF isPrivacyEnabled THEN revealClicks ELSE {}
    /\ UNCHANGED <<storeVars, sseVars, clientVars, timeVars, reqVars, histVars, laneVars,
                   isPaused, bufferedEvents, appEvents, rendered, received>>

\* usePrivacyStore togglePrivacyMode, from the privacy switch
TogglePrivacyMode ==
    /\ isPrivacyEnabled' = ~isPrivacyEnabled
    /\ revealedEvents' = IF isPrivacyEnabled THEN {} ELSE revealedEvents
    /\ revealClicks' = IF isPrivacyEnabled THEN revealClicks ELSE {}
    /\ UNCHANGED <<storeVars, sseVars, clientVars, timeVars, reqVars, histVars, laneVars,
                   isPaused, bufferedEvents, appEvents, rendered, received>>

\* usePrivacyStore toggleEventReveal, from a "Reveal Data" button of the
\* span selected among the events shown
ToggleEventReveal(eventId) ==
    /\ \E i \in 1..Len(appEvents) : appEvents[i] = eventId
    /\ dataHidden(eventId)
    /\ revealedEvents' = IF eventId \in revealedEvents
                          THEN revealedEvents \ {eventId}
                          ELSE revealedEvents \cup {eventId}
    /\ revealClicks' = revealClicks \cup {eventId}
    /\ UNCHANGED <<storeVars, sseVars, clientVars, timeVars, reqVars, histVars, laneVars,
                   isPaused, bufferedEvents, appEvents, rendered, received,
                   isPrivacyEnabled>>

(***************************************************************************)
(* The event store taken alone: EventStore.append and EventStore.clear.    *)
(***************************************************************************)
\* the templates the schema accepts
ValidTemplates == {i \in 1..Len(Templates) : ValidEvent(truncateEvent(Templates[i]))}

EventStoreAppend(tpl) ==
    /\ pc = "idle"
    /\ Len(appended) < MaxAppends
    /\ LET event == truncateEvent(Labelled(Templates[tpl], Len(appended) + 1))
           st == StoreAppend(Store, event)
       IN  /\ buffer' = st.buffer
           /\ head' = st.head
           /\ count' = st.count
           /\ traceIndex' = st.traceIndex
           /\ appended' = Append(appended, event)
    /\ UNCHANGED <<size, cleared, sseVars, clientVars, timeVars, webVars, laneVars, reqVars, histVars>>

EventStoreClear ==
    /\ pc = "idle"
    /\ LET st == StoreClear(Store)
       IN  /\ buffer' = st.buffer
           /\ head' = st.head
           /\ count' = st.count
           /\ traceIndex' = st.traceIndex
    /\ appended' = <<>>
    /\ cleared' = Some(Len(appended))
    /\ UNCHANGED <<size, sseVars, clientVars, timeVars, webVars, laneVars, reqVars, histVars>>

Bodies == UNION {[1..n -> 1..Len(Templates)] : n \in 0..MaxBatch}

Ingest(limit) ==
    \/ \E tpls \in Bodies : IngestReject(Payload(tpls))
    \/ \E tpls \in Bodies : IngestAccept(Payload(tpls), limit)
    \/ IngestAppend
    \/ BroadcastStep
    \/ IngestRespond
    \/ IngestReturn

Subscriptions(limit) ==
    \/ \E f \in Filters : CreateConnection(f, limit)
    \/ \E id \in DOMAIN conn : ClientClose(id)
    \/ \E id \in DOMAIN conn : SinkFail(id)

Clients ==
    \/ \E id \in DOMAIN conn : ClientPause(id)
    \/ \E id \in DOMAIN conn : ClientResume(id)
    \/ \E id \in DOMAIN conn : StreamRead(id)

Timer == Advance \/ HeartbeatTick

\* the pipeline and the subscriptions, with the clock standing still
Next == Ingest(MaxIngested) \/ Subscriptions(MaxConns)

Spec == Init /\ [][Next]_vars

\* the pipeline with subscribers whose reads are followed.  The handler of
\* POST /ingest is synchronous code after its parse: once entered it runs on
\* to its return statement
NextWait == Ingest(MaxIngestedWait) \/ Subscriptions(MaxConns) \/ Clients

FairSpec ==
    Init /\ [][NextWait]_vars /\ WF_vars(IngestAppend \/ BroadcastStep \/ IngestRespond)

\* the subscriptions over time: the heartbeat timer and the shutdown
NextLife == Ingest(MaxIngestedTimed) \/ Subscriptions(MaxConns) \/ Timer \/ Destroy

SpecLife == Init /\ [][NextLife]_vars

\* the pipeline with one subscriber whose reads are followed
NextRead == Ingest(MaxIngestedRead) \/ Subscriptions(MaxConnsRead) \/ Clients

SpecRead == Init /\ [][NextRead]_vars

\* POST /ingest behind sizeLimit, with every kind of body
Gate ==
    \/ \E header \in Headers : SizeLimitReject(header)
    \/ \E header \in Headers : SizeLimitNext(header)

NextHttp ==
    \/ Gate
    \/ IngestChunked(MaxIngestedHttp)
    \/ \E req \in FaultRequests : IngestFault(req)
    \/ Ingest(MaxIngestedHttp)
    \/ Subscriptions(MaxConnsHttp)

SpecHttp == Init /\ [][NextHttp]_vars

\* the event store taken alone, at every capacity 1..MaxCapacity
NextStore ==
    \/ \E tpl \in ValidTemplates : EventStoreAppend(tpl)
    \/ EventStoreClear

SpecStore == InitStore /\ [][NextStore]_vars

\* the web client taken alone
NextWeb == OnMessage \/ Render \/ HandleTogglePause

SpecWeb == Init /\ [][NextWeb]_vars

\* POST /ingest with requests in flight together: a handler is entered when
\* its request arrives and waits for the body; the handlers go on in any
\* order, each when its body has been read and no other code runs
NextLane ==
    \/ \E tpls \in Bodies : IngestArrive(tpls)
    \/ \E r \in pending : IngestResume(r, MaxIngestedLane)
    \/ IngestAppend
    \/ BroadcastStep
    \/ IngestRespond
    \/ IngestReturn
    \/ Subscriptions(MaxConnsLane)

SpecLane == Init /\ [][NextLane]_vars

\* the subscriptions with the handlers of GET /events that read them
MaxIngestedStream == 1
MaxConnsStream == 2

NextStream ==
    \/ Ingest(MaxIngestedStream)
    \/ Subscriptions(MaxConnsStream)
    \/ Destroy
    \/ \E id \in DOMAIN conn : StreamDone(id)

\* a handler whose read has an outcome is resumed (its continuation waits in
\* the queue of the event loop while other handlers run), and a running
\* handler of POST /ingest runs on
FairStream ==
    /\ Init /\ [][NextStream]_vars
    /\ \A id \in 1..MaxConnsStream : SF_vars(id \in DOMAIN conn /\ StreamDone(id))
    /\ WF_vars(IngestAppend \/ BroadcastStep \/ IngestRespond \/ IngestReturn)

\* the web client with its privacy store
NextPrivacy ==
    \/ OnMessage
    \/ Render
    \/ HandleTogglePause
    \/ TogglePrivacyMode
    \/ \E eventId \in 1..MaxReceived : ToggleEventReveal(eventId)

SpecPrivacy == Init /\ [][NextPrivacy]_vars

\* GET /events with every query, and spans and traces to tell the filters apart
FilterEvents ==
    { [Ev(type, trace_id, Some("s1"), kind, started_at, Absent, 4)
            EXCEPT !.span_id = IF type = "span" THEN Some("s1") ELSE Absent] :
        type \in {"trace", "span"}, trace_id \in {"t4", "t5"},
        kind \in {Absent, Some(""), Some("agent"), Some("tool")},
        started_at \in {Absent, Some(1), Some(2), Some(3)} }

NextEvents ==
    \/ \E q \in Queries : EventsReject(q)
    \/ \E q \in Queries : EventsOpen(q, MaxConnsEvents)
    \/ \E event \in FilterEvents : IngestAccept(<<event>>, MaxIngestedEvents)
    \/ IngestAppend
    \/ BroadcastStep
    \/ IngestRespond
    \/ IngestReturn
    \/ \E id \in DOMAIN conn : ClientClose(id)

SpecEvents == Init /\ [][NextEvents]_vars

\* POST /ingest with valid batches of up to MaxBatchWhole events
Batches == UNION {[1..n -> ValidTemplates] : n \in 1..MaxBatchWhole}

NextBatch ==
    \/ \E tpls \in Batches : IngestAccept(Payload(tpls), MaxIngestedWhole)
    \/ IngestAppend
    \/ BroadcastStep
    \/ IngestRespond
    \/ IngestReturn
    \/ Subscriptions(MaxConns)

SpecBatch == Init /\ [][NextBatch]_vars

\* POST /ingest with the events the truncation works on, one subscriber
NextTruncate ==
    \/ \E event \in TruncationInputs : IngestAccept(<<event>>, MaxIngestedCut)
    \/ IngestAppend
    \/ BroadcastStep
    \/ IngestRespond
    \/ IngestReturn
    \/ Subscriptions(MaxConnsCut)

SpecTruncate == Init /\ [][NextTruncate]_vars

(***************************************************************************)
(* What a reader of a stream sees.                                         *)
(***************************************************************************)
EventKeys ==
    {"type", "trace_id", "span_id", "kind", "started_at", "ended_at", "name", "data"}

\* JSON.parse of the payload of an event frame
JsonParse(body) == [k \in EventKeys |-> IF k \in DOMAIN body THEN Some(body[k]) ELSE Absent]

IsEventFrame(f) == f.kind = "data" /\ f.body.type \in {"trace", "span"}

\* the payloads of the event frames written to the sink of a connection
EventFrames(id) ==
    LET fs == SelectSeq(sink[id], IsEventFrame) IN [i \in 1..Len(fs) |-> fs[i].body]

\* the number of the event in the producer's count, which is its place in the
\* arrival order of the store
Label(body) == body.name.id

Accepts(id, e) == conn[id].filter = Absent \/ matchesFilter(e, conn[id].filter[1])

IsSuffix(s, t) ==
    /\ Len(s) <= Len(t)
    /\ \A i \in 1..Len(s) : t[Len(t) - Len(s) + i] = s[i]

\* what connection id is to be sent of the events evs
Expected(id, evs) ==
    LET acc == SelectSeq(evs, LAMBDA e : Accepts(id, e))
    IN  [i \in 1..Len(acc) |-> JsonStringify(acc[i])]

AppendedOfRequest ==
    IF pc = "append" THEN idx - 1
    ELSE IF pc \in {"broadcast", "flush"} THEN idx
    ELSE IF pc \in {"respond", "done"} THEN Len(events)
    ELSE 0

\* how many events of the running request the broadcast has taken past
\* connection id
BroadcastOfRequest(id) ==
    IF pc = "append" THEN idx - 1
    ELSE IF pc = "broadcast" THEN (IF id <= cursor THEN idx ELSE idx - 1)
    ELSE IF pc = "flush" THEN (IF id < cursor THEN idx ELSE idx - 1)
    ELSE IF pc \in {"respond", "done"} THEN Len(events)
    ELSE 0

C2_BatchInOrder ==
    LET k == AppendedOfRequest
        base == Len(appended) - k
        all == getAll(Store)
        j == Min(k, MAX_EVENTS)
    IN  /\ IsSuffix(SubSeq(events, 1, k), appended)
        /\ IsSuffix(SubSeq(events, k - j + 1, k), all)
        /\ \A id \in connections :
              LET fs == EventFrames(id)
                  mine == SelectSeq(fs, LAMBDA b : Label(b) > base)
              IN  mine = Expected(id, SubSeq(events, 1, BroadcastOfRequest(id)))
        /\ (pc = "done" /\ Len(events) > 0)
              => resp = [status |-> 200, count |-> Len(events)]

\* a batch of two was answered 200 with a subscriber that got both events
C2_Witness ==
    /\ pc = "done" /\ resp.status = 200 /\ Len(events) = 2
    /\ \E id \in connections :
          Len(SelectSeq(EventFrames(id), LAMBDA b : Label(b) > Len(appended) - 2)) = 2

(***************************************************************************)
(* C3: the event frames written to the sink of a subscription follow the   *)
(* order in which the store appended those events.                         *)
(***************************************************************************)
C3_SinkFollowsAppendOrder ==
    \A id \in DOMAIN conn :
        LET fs == EventFrames(id) IN
        /\ \A i \in 1..Len(fs) :
              /\ Label(fs[i]) \in 1..Len(appended)
              /\ fs[i] = JsonStringify(appended[Label(fs[i])])
        /\ \A i \in 1..(Len(fs) - 1) : Label(fs[i]) < Label(fs[i + 1])

\* a subscription was sent two events
C3_Witness == \E id \in DOMAIN conn : Len(EventFrames(id)) >= 2

(***************************************************************************)
(* C4: between requests, a connected subscription has been written every   *)
(* event that was ingested after its creation and that its filter accepts, *)
(* once each, with the payload of the event the store was given.           *)
(***************************************************************************)
C4_EveryAcceptedEventOnce ==
    pc = "idle" =>
        \A id \in connections :
            EventFrames(id) =
                Expected(id, SubSeq(appended, bornAt[id] + 1, Len(appended)))

\* two subscriptions, one of them filtered, were sent different events
C4_Witness ==
    /\ pc = "idle"
    /\ \E a, b \in connections :
          /\ conn[a].filter = Absent /\ conn[b].filter # Absent
          /\ Len(EventFrames(a)) >= 2
          /\ Len(EventFrames(b)) >= 1
          /\ Len(EventFrames(b)) < Len(EventFrames(a))
          /\ bornAt[a] = bornAt[b]

(***************************************************************************)
(* C5: an event that the filter of a subscription rejects is never in its  *)
(* queue and never written to its sink.                                    *)
(***************************************************************************)
C5_RejectedNeverQueuedNorSent ==
    \A id \in DOMAIN conn :
        /\ \A i \in 1..Len(conn[id].queue) : Accepts(id, conn[id].queue[i])
        /\ \A i \in 1..Len(EventFrames(id)) : Accepts(id, JsonParse(EventFrames(id)[i]))

\* a filtered subscription was connected when an event it rejects was broadcast
C5_Witness ==
    /\ pc = "idle"
    /\ \E id \in connections :
          /\ conn[id].filter # Absent
          /\ \E i \in (bornAt[id] + 1)..Len(appended) : ~Accepts(id, appended[i])

(***************************************************************************)
(* C6: the queue of a subscription never holds more than MAX_QUEUE_SIZE    *)
(* events.                                                                 *)
(***************************************************************************)
C6_QueueBounded ==
    \A id \in DOMAIN conn : Len(conn[id].queue) <= conn[id].maxQueueSize

\* an event waits in the queue of a subscription
C6_Witness == \E id \in DOMAIN conn : Len(conn[id].queue) > 0

(***************************************************************************)
(* C7: when the client of a subscription has stopped reading and more      *)
(* matching events than MAX_QUEUE_SIZE have been broadcast to it, the      *)
(* oldest of them has been dropped and the backpressure comment has been   *)
(* written to its sink.                                                    *)
(***************************************************************************)
\* the matching events broadcast to connection id since its client stopped
\* reading
BroadcastWhilePaused(id) ==
    SelectSeq(SubSeq(appended, pausedAt[id][1] + 1, Len(appended)),
              LAMBDA e : Accepts(id, e))

HasBackpressureComment(id) ==
    \E i \in 1..Len(sink[id]) :
        /\ sink[id][i].kind = "comment"
        /\ sink[id][i].body.comment = BackpressureComment

C7_DropOldestWhenPaused ==
    \A id \in connections :
        (/\ pc = "idle"
         /\ paused[id]
         /\ Len(BroadcastWhilePaused(id)) > MAX_QUEUE_SIZE) =>
            /\ HasBackpressureComment(id)
            /\ \A i \in 1..Len(EventFrames(id)) :
                  EventFrames(id)[i] # JsonStringify(BroadcastWhilePaused(id)[1])

(***************************************************************************)
(* C8: a POST /ingest with a valid payload runs on to its 200 response     *)
(* with all of its events stored and broadcast, whatever its subscribers   *)
(* do: clients that have stopped reading, sinks that fail.                 *)
(***************************************************************************)
InHandler == pc \in {"append", "broadcast", "flush", "respond"}

Completed ==
    /\ pc = "done"
    /\ resp = [status |-> 200, count |-> Len(events)]
    /\ IsSuffix(events, appended)
    /\ \A id \in connections : IsSuffix(Expected(id, events), EventFrames(id))

C8_IngestAlwaysCompletes == InHandler ~> Completed

\* a request was answered 200 with one subscriber not reading, which was sent
\* the event, and another whose sink had failed
C8_Witness ==
    /\ Completed
    /\ failed # {}
    /\ \E id \in connections : paused[id] /\ Expected(id, events) # <<>>

(***************************************************************************)
(* C9: when a write to the sink of a subscription fails during a           *)
(* broadcast, that subscription alone is removed: the events of the        *)
(* request are stored, every other subscription stays registered and is    *)
(* sent the events its filter accepts, and the request is answered 200.    *)
(***************************************************************************)
C9_SinkFailureIsLocal ==
    failed # {} =>
        LET k == AppendedOfRequest
            base == Len(appended) - k
        IN  /\ IsSuffix(SubSeq(events, 1, k), appended)
            /\ \A id \in failed : ~sinkOk[id] /\ ~conn[id].connected
            /\ connections = before[1].manager.connections \ failed
            /\ \A id \in connections :
                  SelectSeq(EventFrames(id), LAMBDA b : Label(b) > base)
                      = Expected(id, SubSeq(events, 1, BroadcastOfRequest(id)))
            /\ pc = "done" => resp = [status |-> 200, count |-> Len(events)]
            /\ pc \in {"append", "broadcast", "flush", "respond", "done"}

\* a request was answered 200 after a write to one subscription had failed and
\* another subscription had been sent the event
C9_Witness ==
    /\ pc = "done" /\ resp.status = 200
    /\ failed # {}
    /\ \E id \in connections : Expected(id, events) # <<>>

(***************************************************************************)
(* C10: a subscription that has been removed (by the close of its client,  *)
(* by a failed write or by destroy) is not in the registry, is never       *)
(* connected again, and its sink is written no further frame.              *)
(***************************************************************************)
C10_RemovedForGood ==
    \A id \in DOMAIN conn :
        /\ closedLen[id] # Absent <=> ~conn[id].connected
        /\ id \in connections <=> conn[id].connected
        /\ closedLen[id] # Absent => Len(sink[id]) = closedLen[id][1]

\* a subscription was removed before an event was broadcast and a heartbeat
\* was due, which another subscription of the same age was sent
C10_Witness ==
    \E id, other \in DOMAIN conn :
        /\ closedLen[id] = Some(1)
        /\ conn[id].filter = Absent /\ bornAt[id] = 0
        /\ other \in connections /\ bornAt[other] = 0
        /\ Len(EventFrames(other)) > 0
        /\ \E i \in 1..Len(sink[other]) :
              /\ sink[other][i].kind = "comment"
              /\ sink[other][i].body.comment = HeartbeatComment

(***************************************************************************)
(* C13: at every capacity, getAll gives the last min(n, size) of the n     *)
(* events appended since the store was made or cleared, in arrival order,  *)
(* and count is min(n, size).                                              *)
(***************************************************************************)
C13_RingKeepsLast ==
    LET n == Len(appended)
        k == Min(n, size)
    IN  /\ count = k
        /\ getAll(Store) = SubSeq(appended, n - k + 1, n)

\* a store of capacity 1 that was given three events
C13_Witness == size = 1 /\ Len(appended) = 3

(***************************************************************************)
(* C14: the events the store retains, in the ring buffer and in the trace  *)
(* index together, never number more than twice its capacity.              *)
(***************************************************************************)
\* how many events the index of a store holds
RECURSIVE IndexedEvents(_, _)
IndexedEvents(ti, ids) ==
    IF ids = {} THEN 0
    ELSE LET t == CHOOSE x \in ids : TRUE
         IN  (IF ti[t].traceEvent # Absent THEN 1 ELSE 0) + Len(ti[t].spans)
                + IndexedEvents(ti, ids \ {t})

C14_StoreMemoryBounded ==
    count + IndexedEvents(traceIndex, DOMAIN traceIndex) <= 2 * size

(***************************************************************************)
(* C15: getByTrace(t) is the last envelope appended for t, if any, and     *)
(* then every span appended for t, in arrival order, whether or not the    *)
(* ring buffer still holds them.                                           *)
(***************************************************************************)
TraceIdsUsed == {Templates[i].trace_id[1] : i \in ValidTemplates} \cup {"t0"}

EnvelopesOf(t) ==
    SelectSeq(appended, LAMBDA e : e.type = Some("trace") /\ e.trace_id = Some(t))

SpansOf(t) ==
    SelectSeq(appended, LAMBDA e : e.type = Some("span") /\ e.trace_id = Some(t))

C15_GetByTrace ==
    \A t \in TraceIdsUsed :
        getByTrace(Store, t) =
            (IF EnvelopesOf(t) = <<>> THEN <<>>
             ELSE <<EnvelopesOf(t)[Len(EnvelopesOf(t))]>>) \o SpansOf(t)

\* a trace whose envelope was sent twice and whose two spans the ring buffer
\* of capacity 1 has lost
C15_Witness ==
    /\ size = 1
    /\ \E t \in TraceIdsUsed :
          /\ Len(EnvelopesOf(t)) = 2 /\ Len(SpansOf(t)) = 2
          /\ appended[Len(appended)].type = Some("trace")

(***************************************************************************)
(* C16: clear leaves a store that answers as a new store of the same       *)
(* capacity does, at once and after any appends that follow.               *)
(***************************************************************************)
Observations(st) ==
    [all |-> getAll(st), count |-> st.count, size |-> st.size,
     ids |-> getTraceIds(st),
     byTrace |-> [t \in TraceIdsUsed |-> getByTrace(st, t)]]

\* a new store of capacity maxSize given the events evs
RECURSIVE Replay(_, _)
Replay(maxSize, evs) ==
    IF evs = <<>> THEN NewStore(maxSize)
    ELSE StoreAppend(Replay(maxSize, SubSeq(evs, 1, Len(evs) - 1)), evs[Len(evs)])

C16_ClearGivesNewStore ==
    cleared # Absent =>
        /\ Observations(Store) = Observations(Replay(size, appended))
        /\ appended = <<>> =>
              /\ getAll(Store) = <<>> /\ count = 0
              /\ getTraceIds(Store) = {}
              /\ \A t \in TraceIdsUsed : getByTrace(Store, t) = <<>>

\* a store that had wrapped was cleared and then given events until it
\* wrapped again
C16_Witness ==
    /\ cleared # Absent
    /\ cleared[1] > size
    /\ Len(appended) > size

(***************************************************************************)
(* C11: the first frame written to a subscription is the connected frame,  *)
(* and no event the store was given before the subscription was created is *)
(* ever written to it.                                                     *)
(***************************************************************************)
IsConnectedFrame(f) == f.kind = "data" /\ f.body.type = "connected"

C11_ConnectedFirstNoReplay ==
    \A id \in DOMAIN conn :
        /\ Len(sink[id]) >= 1
        /\ IsConnectedFrame(sink[id][1])
        /\ \A i \in 2..Len(sink[id]) : ~IsConnectedFrame(sink[id][i])
        /\ \A i \in 1..Len(EventFrames(id)) : Label(EventFrames(id)[i]) > bornAt[id]

\* a subscription created when the store held events was sent a later event
C11_Witness ==
    \E id \in DOMAIN conn :
        /\ bornAt[id] > 0 /\ count > 0
        /\ Len(EventFrames(id)) > 0

(***************************************************************************)
(* C17: every event the store holds, in its buffer or its index, and every *)
(* event queued for or written to a subscription has a non-empty trace_id, *)
(* a non-empty span_id if it is a span, and started_at <= ended_at when    *)
(* both are present.                                                       *)
(***************************************************************************)
DataModelHolds(e) ==
    /\ e.trace_id # Absent /\ e.trace_id[1] # ""
    /\ e.type = Some("span") => (e.span_id # Absent /\ e.span_id[1] # "")
    /\ (e.started_at # Absent /\ e.ended_at # Absent)
          => ~(e.ended_at[1] < e.started_at[1])

C17_DataModelInvariants ==
    /\ \A i \in 1..Len(getAll(Store)) : DataModelHolds(getAll(Store)[i])
    /\ \A t \in DOMAIN traceIndex :
          \A i \in 1..Len(getByTrace(Store, t)) : DataModelHolds(getByTrace(Store, t)[i])
    /\ \A id \in DOMAIN conn :
          /\ \A i \in 1..Len(conn[id].queue) : DataModelHolds(conn[id].queue[i])
          /\ \A i \in 1..Len(EventFrames(id)) :
                DataModelHolds(JsonParse(EventFrames(id)[i]))

\* the store holds, and a subscription was sent, a span that starts and ends
\* at the same time
C17_Witness ==
    /\ \E i \in 1..Len(getAll(Store)) :
          LET e == getAll(Store)[i]
          IN  e.started_at # Absent /\ e.started_at = e.ended_at
    /\ \E id \in DOMAIN conn : \E i \in 1..Len(EventFrames(id)) :
          LET e == JsonParse(EventFrames(id)[i])
          IN  e.started_at # Absent /\ e.started_at = e.ended_at

(***************************************************************************)
(* C12: while the manager runs and a subscription is connected and is sent *)
(* no events, no more than 15 seconds pass after a write to its sink       *)
(* without the next write:                                                 *)
(* the connected frame at its creation, then a heartbeat comment at least  *)
(* every 15 seconds.                                                       *)
(***************************************************************************)
\* when the sink of an idle subscription was last written: lastHeartbeat is
\* set at the creation, with the connected frame, and at every heartbeat
LastIdleWrite(id) == conn[id].lastHeartbeat

C12_HeartbeatEvery15s ==
    \A id \in connections :
        (heartbeatInterval /\ EventFrames(id) = <<>> /\ sinkOk[id]) =>
            now - LastIdleWrite(id) <= HEARTBEAT_MS

(***************************************************************************)
(* C18: a POST /ingest whose body is no JSON text is answered 400          *)
(* (validation failed, with details), and nothing is stored or broadcast.  *)
(***************************************************************************)
C18_MalformedJsonIs400 ==
    reqBody = Some("malformed") =>
        /\ pc = "done"
        /\ resp.status = 400
        /\ before = Some(Observable)

(***************************************************************************)
(* C19: a POST /ingest whose body is JSON text is answered 200 or 400,     *)
(* never 500, whatever the shape of the body: null, a number, a string, a  *)
(* batch that is no list, an event whose name is no string.                *)
(***************************************************************************)
C19_ParsedBodyNever500 ==
    (pc = "done" /\ reqBody # Absent /\ reqBody # Some("malformed")) =>
        resp.status \in {200, 400}

(***************************************************************************)
(* C20: a POST /ingest with a Content-Length above 262144 is answered 413  *)
(* by sizeLimit, its body is not parsed and nothing is stored or           *)
(* broadcast; a Content-Length of 262144 or less is not answered 413.      *)
(***************************************************************************)
C20_SizeGateAt262144 ==
    contentLength # Absent =>
        LET n == ParseInt(contentLength[1])
        IN  /\ (n # NaN /\ n[1] > 262144) =>
                  /\ pc = "done"
                  /\ resp.status = 413
                  /\ reqBody = Absent
                  /\ before = Some(Observable)
            /\ (n # NaN /\ n[1] <= 262144) => resp.status # 413
            /\ contentLength[1] = <<"2", "6", "2", "1", "4", "5">> => resp.status = 413
            /\ contentLength[1] = <<"2", "6", "2", "1", "4", "4">> => resp.status # 413

\* a request of 262145 bytes was answered 413 while the store held an event
\* and a subscriber listened
C20_Witness ==
    /\ contentLength = Some(<<"2", "6", "2", "1", "4", "5">>)
    /\ pc = "done" /\ resp.status = 413
    /\ count > 0 /\ connections # {}

(***************************************************************************)
(* C21: the body of a request is bounded at 256 KiB: a request whose body  *)
(* is larger than 262144 bytes leaves the store and the subscribers as     *)
(* they were, whether or not it carries a Content-Length header.           *)
(***************************************************************************)
\* the characters of the name of an event in the JSON text of a body
NameChars(e) == IF e.name # Absent /\ IsString(e.name[1]) THEN StrLen(e.name[1]) ELSE 0

\* a JSON text is at least as long as the names in it
MinBodyBytes(evs) == SumSeq([i \in 1..Len(evs) |-> NameChars(evs[i])])

C21_OversizedBodyNeverStored ==
    (pc = "done" /\ MinBodyBytes(posted) > MAX_SIZE) => before = Some(Observable)

(***************************************************************************)
(* C22: truncation is idempotent: truncateEvent(truncateEvent(x)) equals   *)
(* truncateEvent(x) for every event x posted, for names and data strings.  *)
(***************************************************************************)
C22_TruncationIdempotent ==
    \A i \in 1..Len(posted) :
        LET once == truncateEvent(posted[i])
        IN  truncateEvent(once) = once

\* a span with a name over the cap and a data string over the cap was
\* truncated and stored
C22_Witness ==
    /\ pc = "done" /\ resp.status = 200 /\ Len(posted) = 1
    /\ posted[1].type = Some("span")
    /\ posted[1].name = Some(Str(0, MAX_NAME_LENGTH + 1))
    /\ posted[1].data = Some(JObject([text |-> OverCap]))
    /\ truncateEvent(posted[1]) # posted[1]
    /\ appended[Len(appended)] = truncateEvent(posted[1])

(***************************************************************************)
(* C23: a name of up to 1024 characters is stored unchanged, a longer one  *)
(* as its first 1024 characters and '... [truncated]' (1024 + 15           *)
(* characters); the strings of a span's data, through nested objects,      *)
(* follow the same policy at 102400 characters.                            *)
(***************************************************************************)
\* the policy on a string as posted
Capped(s, cap) ==
    IF s.pre <= cap THEN s ELSE [id |-> s.id, pre |-> cap, tail |-> <<SUFFIX_LENGTH>>]

\* the strings of the properties y follow the policy on the properties x
RECURSIVE DataCapped(_, _)
DataCapped(x, y) ==
    /\ DOMAIN x = DOMAIN y
    /\ \A key \in DOMAIN x :
          /\ IsString(x[key]) => y[key] = Capped(x[key], MAX_DATA_VALUE_LENGTH)
          /\ IsObject(x[key]) =>
                (IsObject(y[key]) /\ DataCapped(x[key].object, y[key].object))

\* the events the store was given by the running request
StoredOfRequest == SubSeq(appended, Len(appended) - AppendedOfRequest + 1, Len(appended))

C23_CapsAt1024And102400 ==
    \A i \in 1..Len(StoredOfRequest) :
        LET x == posted[i]
            y == StoredOfRequest[i]
        IN  /\ x.name # Absent =>
                  /\ y.name = Some(Capped(x.name[1], MAX_NAME_LENGTH))
                  /\ StrLen(x.name[1]) = 1024 => y.name = x.name
                  /\ StrLen(x.name[1]) > 1024 => StrLen(y.name[1]) = 1024 + 15
            /\ (x.type = Some("span") /\ x.data # Absent /\ IsObject(x.data[1])) =>
                  DataCapped(x.data[1].object, y.data[1].object)

\* a name of 1025 characters and a nested data string of 102401 characters
\* were stored cut and marked
C23_Witness ==
    /\ pc = "done" /\ resp.status = 200 /\ Len(posted) = 1
    /\ posted[1].type = Some("span")
    /\ posted[1].name = Some(Str(0, MAX_NAME_LENGTH + 1))
    /\ posted[1].data =
            Some(JObject([outer |-> JObject([text |-> OverCap]), size |-> Num(0, 0)]))
    /\ StrLen(appended[Len(appended)].name[1]) = 1039
    /\ StrLen(appended[Len(appended)].data[1].object.outer.object.text) = 102415

(***************************************************************************)
(* C24: truncateEvent changes nothing but the name and the strings reached *)
(* through the nested objects of a span's data: every other field, every   *)
(* value of data that is no string and every array in data stay as posted. *)
(***************************************************************************)
\* the properties y are the properties x but for the length of the strings
RECURSIVE DataKept(_, _)
DataKept(x, y) ==
    /\ DOMAIN x = DOMAIN y
    /\ \A key \in DOMAIN x :
          IF IsString(x[key]) THEN IsString(y[key]) /\ y[key].id = x[key].id
          ELSE IF IsObject(x[key])
          THEN IsObject(y[key]) /\ DataKept(x[key].object, y[key].object)
          ELSE y[key] = x[key]

C24_TruncationFrame ==
    \A i \in 1..Len(posted) :
        LET x == posted[i]
            y == truncateEvent(x)
        IN  /\ \A k \in EventKeys \ {"name", "data"} : y[k] = x[k]
            /\ x.name = Absent <=> y.name = Absent
            /\ IF x.type = Some("span") /\ x.data # Absent /\ IsObject(x.data[1])
               THEN /\ y.data # Absent
                    /\ IsObject(y.data[1])
                    /\ DataKept(x.data[1].object, y.data[1].object)
               ELSE y.data = x.data

(***************************************************************************)
(* C25: when every event validates, a batch in one request leaves the ring *)
(* buffer, the trace index and the frames of every subscriber as the same  *)
(* events do in consecutive single-event requests.                         *)
(***************************************************************************)
\* flushConnection run to its end
RECURSIVE Flushed(_, _, _)
Flushed(r, id, event) ==
    IF r.at = "flush" THEN Flushed(BroadcastBody(r.m, id, event, "flush"), id, event)
    ELSE r.m

\* sseManager.broadcast(event) run to its end over the connections `ids`
RECURSIVE Broadcast(_, _, _)
Broadcast(m, ids, event) ==
    IF ids = {} THEN m
    ELSE LET id == CHOOSE i \in ids : \A j \in ids : i <= j
             after == IF id \in m.connections
                      THEN Flushed(BroadcastBody(m, id, event, "visit"), id, event)
                      ELSE m
         IN  Broadcast(after, ids \ {id}, event)

\* what a request with the single valid event `event` makes of store and manager
SingleRequest(obs, event) ==
    [obs EXCEPT !.store = StoreAppend(obs.store, event),
                !.appended = Append(obs.appended, event),
                !.manager = Broadcast(obs.manager, obs.manager.connections, event)]

\* consecutive single-event requests
RECURSIVE SingleRequests(_, _)
SingleRequests(obs, evs) ==
    IF evs = <<>> THEN obs
    ELSE SingleRequests(SingleRequest(obs, Head(evs)), Tail(evs))

C25_BatchAsSingles ==
    (pc = "done" /\ resp.status = 200) =>
        Observable = SingleRequests(before[1], events)

\* a batch of three events was answered while two subscribers listened, one
\* of them to every event, and the ring had wrapped
C25_Witness ==
    /\ pc = "done" /\ resp.status = 200 /\ Len(events) = 3
    /\ Cardinality(before[1].manager.connections) = 2
    /\ \E id \in connections : Len(EventFrames(id)) = 3
    /\ \E id \in DOMAIN conn : Len(EventFrames(id)) \in 1..2
    /\ count = MAX_EVENTS /\ Len(appended) = 3

(***************************************************************************)
(* C26: an event passes a filter F iff (F.traceId is absent or equal to    *)
(* its trace_id) and (F.kinds is absent, or it is a trace, or it is a span *)
(* with a kind in F.kinds) and (F.since is absent, or it is a trace, or a  *)
(* span without started_at, or started_at >= F.since); an absent filter    *)
(* lets every event pass.                                                  *)
(***************************************************************************)
Passes(event, filter) ==
    \/ filter = Absent
    \/ LET F == filter[1]
       IN  /\ F.traceId = Absent \/ event.trace_id = F.traceId
           /\ \/ F.kinds = Absent
              \/ event.type = Some("trace")
              \/ event.kind # Absent /\ event.kind[1] \in F.kinds[1]
           /\ \/ F.since = Absent
              \/ event.type = Some("trace")
              \/ event.started_at = Absent
              \/ event.started_at[1] >= F.since[1]

\* a frame was written to the sink of a subscription for an event of the request
SentOfRequest(id) == Len(sink[id]) > Len(before[1].manager.sink[id])

C26_FilterIsReference ==
    (pc = "done" /\ resp.status = 200 /\ Len(events) = 1) =>
        \A id \in before[1].manager.connections :
            sinkOk[id] => (SentOfRequest(id) <=> Passes(events[1], conn[id].filter))

IsHeartbeat(f) == f.kind = "comment" /\ f.body.comment = HeartbeatComment

Heartbeats(id) == Len(SelectSeq(sink[id], IsHeartbeat))

\* Date.now() at createConnection, as the connected message tells it
CreatedAt(id) == sink[id][1].body.timestamp

\* the ticks of the timer so far at which a subscription was due
DueTicks(id) ==
    {t \in {k * HEARTBEAT_MS : k \in 1..MaxSteps} :
        t < nextTick /\ t - CreatedAt(id) >= HEARTBEAT_MS}

C28_TickToleratesRemovals ==
    \A id \in DOMAIN conn :
        /\ id \in connections => Heartbeats(id) = Cardinality(DueTicks(id))
        /\ id \notin connections => Heartbeats(id) <= Cardinality(DueTicks(id))

\* at one tick the heartbeat write to the first of two due subscriptions
\* failed and removed it, and the second was sent its heartbeat
C28_Witness ==
    \E id, other \in DOMAIN conn :
        /\ id < other
        /\ CreatedAt(id) = 0 /\ CreatedAt(other) = 0
        /\ ~sinkOk[id] /\ id \notin connections
        /\ conn[id].lastHeartbeat = HEARTBEAT_MS /\ Heartbeats(id) = 0
        /\ other \in connections /\ Heartbeats(other) = 1
        /\ conn[other].lastHeartbeat = HEARTBEAT_MS

(***************************************************************************)
(* C29: POST /ingest is all-or-nothing: every answer other than 200 (400,  *)
(* 413 or 500) leaves the store and the streams of all subscribers as they *)
(* were before the request.                                                *)
(***************************************************************************)
C29_ErrorLeavesNoTrace ==
    (pc = "done" /\ query = Absent /\ resp.status # 200) =>
        /\ resp.status \in {400, 413, 500}
        /\ before # Absent
        /\ Store = before[1].store
        /\ appended = before[1].appended
        /\ Manager = before[1].manager

\* a batch whose second event is invalid was answered 400 while the store
\* held an event that a subscriber had been sent
C29_Witness ==
    /\ pc = "done" /\ resp.status = 400 /\ reqBody = Some("events")
    /\ reqInvalid
    /\ count > 0
    /\ \E id \in connections : Len(EventFrames(id)) > 0

(***************************************************************************)
(* C30: in the web client an event received while the stream is paused is  *)
(* held in the pause buffer and not shown, and resume moves the buffer to  *)
(* the list shown: every event received is either shown once or held once, *)
(* never lost and never twice, and what is held while paused is not shown. *)
(***************************************************************************)
Occurrences(s, e) == Cardinality({i \in 1..Len(s) : s[i] = e})

C30_PauseBufferKeepsAll ==
    \A e \in 1..received :
        Occurrences(appEvents, e) + Occurrences(bufferedEvents, e) = 1

C38_NewestFirst ==
    \A i, j \in 1..Len(appEvents) : i < j => appEvents[i] > appEvents[j]

(***************************************************************************)
(* C32: when a call of broadcast has returned the queue of every           *)
(* subscription is empty; between operations no queue holds an event, and  *)
(* during a broadcast a queue holds at most one: that of the subscription  *)
(* the loop is at, between its push and its flush.                         *)
(***************************************************************************)
C32_QueueEmptyBetween ==
    \A id \in DOMAIN conn :
        /\ Len(conn[id].queue) <= 1
        /\ conn[id].queue # <<>> => pc = "flush" /\ cursor = id

\* the broadcasts of a batch of two events have returned, a subscription
\* still registered was sent both and its queue is empty
C32_Witness ==
    /\ pc = "respond"
    /\ Len(events) = 2
    /\ \E id \in connections :
          /\ Len(EventFrames(id)) >= 2
          /\ conn[id].queue = <<>>

(***************************************************************************)
(* C36: the number of event frames a subscription has been sent never      *)
(* exceeds the number of events appended to the store since the            *)
(* subscription was created.                                               *)
(***************************************************************************)
C36_FramesWithinAppended ==
    \A id \in DOMAIN conn :
        Len(EventFrames(id)) <= Len(appended) - bornAt[id]

\* a subscription created after an event had been stored has been sent
\* every one of the two events stored since
C36_Witness ==
    \E id \in DOMAIN conn :
        /\ bornAt[id] > 0
        /\ Len(EventFrames(id)) = 2
        /\ Len(appended) - bornAt[id] = 2

(***************************************************************************)
(* C37: the registry holds exactly the subscriptions whose connected flag  *)
(* is true, and removeConnection is idempotent: removing an id that has    *)
(* been removed already, or an id that was never given out, changes        *)
(* neither the registry nor any subscription, and removing a registered id *)
(* twice gives what removing it once gives and leaves the others as they   *)
(* were.                                                                   *)
(***************************************************************************)
C37_RegistryIsConnected ==
    /\ connections \subseteq DOMAIN conn
    /\ \A id \in DOMAIN conn : id \in connections <=> conn[id].connected
    /\ \A id \in 1..(nextId + 1) :
          id \notin connections => RemoveConnection(Manager, id) = Manager
    /\ \A id \in connections :
          LET once == RemoveConnection(Manager, id) IN
          /\ RemoveConnection(once, id) = once
          /\ once.connections = connections \ {id}
          /\ \A other \in DOMAIN conn \ {id} : once.conn[other] = conn[other]

\* one subscription has been removed and another is registered
C37_Witness ==
    \E id \in DOMAIN conn \ connections : \E other \in connections :
        /\ ~conn[id].connected
        /\ conn[other].connected
        /\ closedLen[id] # Absent

(***************************************************************************)
(* C34: writing an event frame leaves lastHeartbeat as it was: it is set   *)
(* at creation and by the heartbeat tick only, so that a subscription      *)
(* which is sent events all the time is still sent a heartbeat comment at  *)
(* every tick at which 15 s or more have passed since its last heartbeat.  *)
(***************************************************************************)
\* when the subscription was last due at a tick, or else when it was created
LastBeat(id) ==
    IF DueTicks(id) = {} THEN CreatedAt(id)
    ELSE CHOOSE t \in DueTicks(id) : \A u \in DueTicks(id) : u <= t

C34_EventsLeaveHeartbeat ==
    \A id \in connections :
        /\ conn[id].lastHeartbeat = LastBeat(id)
        /\ Heartbeats(id) = Cardinality(DueTicks(id))

\* a subscription created at 0 was sent an event after a second one had
\* been created later than 0, and then its heartbeat at the first tick
C34_Witness ==
    \E id \in connections : \E other \in DOMAIN conn :
        /\ CreatedAt(id) = 0
        /\ CreatedAt(other) > 0
        /\ bornAt[other] = 0
        /\ \E i, j \in 1..Len(sink[id]) :
              /\ i < j
              /\ IsEventFrame(sink[id][i])
              /\ IsHeartbeat(sink[id][j])
        /\ conn[id].lastHeartbeat = HEARTBEAT_MS

(***************************************************************************)
(* C35: when the manager removes a subscription on its own side, on a      *)
(* write error of the sink or in destroy, the stream of the subscription   *)
(* is ended, so that the read loop of its GET /events handler ends in time *)
(* and the response finishes: no handler stays suspended for ever on a     *)
(* subscription that is no longer registered.                              *)
(***************************************************************************)
C35_RemovedHandlerEnds ==
    \A id \in 1..MaxConnsStream :
        (id \in DOMAIN conn /\ id \notin connections)
            ~> (id \in DOMAIN conn /\ reader[id] = "released")

(***************************************************************************)
(* C33: POST /ingest requests in flight together do not interleave inside  *)
(* a batch: the events of one request stand at consecutive places, in the  *)
(* order of its payload, in the arrival order of the store and among the   *)
(* event frames of every subscriber, and the order of the events is the    *)
(* same for the store and for all subscribers.                             *)
(***************************************************************************)
\* the request an event came with
RequestOf(label) == label \div LabelBase

\* the events of one request are together and in the order of its payload
Unbroken(labels) ==
    \A i, j \in 1..Len(labels) :
        (i < j /\ RequestOf(labels[i]) = RequestOf(labels[j])) =>
            /\ labels[i] < labels[j]
            /\ \A k \in i..j : RequestOf(labels[k]) = RequestOf(labels[i])

\* where the event named label stands in the arrival order of the store
PlaceOf(label) == CHOOSE i \in 1..Len(appended) : appended[i].name[1].id = label

C33_BatchesDoNotInterleave ==
    /\ Unbroken([i \in 1..Len(appended) |-> appended[i].name[1].id])
    /\ \A id \in DOMAIN conn :
          LET fs == EventFrames(id)
              labels == [i \in 1..Len(fs) |-> Label(fs[i])]
          IN  /\ Unbroken(labels)
              /\ LabelsOf(appended) # {} \/ Len(fs) = 0
              /\ \A i, j \in 1..Len(fs) :
                    i < j => PlaceOf(labels[i]) < PlaceOf(labels[j])

\* two requests of two events each waited for their bodies together, the
\* second went on first, and a subscriber was sent the four events
C33_Witness ==
    /\ Len(appended) = 4
    /\ RequestOf(appended[1].name[1].id) = 2
    /\ RequestOf(appended[2].name[1].id) = 2
    /\ RequestOf(appended[3].name[1].id) = 1
    /\ \E id \in connections : Len(EventFrames(id)) = 4

=============================================================================
